---- MODULE Spec2Model ----
(***************************************************************************)
(* MobileWorld environment fleet: the `mw env` subcommands of              *)
(* src/mobile_world/core/subcommands/env.py (run, rm, readiness wait) over *)
(* a container runtime and a host port table.                              *)
(*                                                                         *)
(* Time is counted in seconds: one failed health probe                     *)
(* (wait_for_container_ready(timeout=1, poll_interval=1)) and one          *)
(* time.sleep(1) of the stagger loop each take one tick of `now`.          *)
(***************************************************************************)
EXTENDS Integers, Sequences, FiniteSets, TLC

\* ------------------------------------------------------------------ bounds
\* highest host port number of the modelled port table (the scan window)
MaxPort == 8
\* largest --count of a run request
MaxCount == 2
\* most ports held by processes outside the fleet
MaxHostBound == 2
\* the readiness timeout the batch passes (timeout=600 at env.py:618), in ticks
LaunchReadyTimeout == 3
\* largest timeout of a standalone readiness wait
MaxWaitTimeout == 2
\* latest tick after its launch at which an instance turns healthy
MaxHealthDelay == 4
\* largest --launch-interval
MaxLaunchInterval == 2
\* most commands that take time (run requests, standalone waits) of one behaviour
MaxOps == 2
\* highest container index of the untimed fleet specification
MaxIndex == 2
\* predict calls of an agent between two resets
MaxTurns == 3
\* largest history_n (history_n_images) of an agent
MaxHistoryN == 2
\* longest conversation passed to _hide_history_images on its own
MaxMessages == 4
\* largest retry_times of a chat completion call
MaxRetryTimes == 3
\* API calls of one chat completion call that are counted; later ones leave the count
MaxApiCalls == 6
\* largest max_retries of an MCP client
MaxMcpRetries == 3
\* largest retry_delay and largest retry_backoff of an MCP client
MaxRetryDelay == 2
MaxRetryBackoff == 3
\* list_tools_sync and call_tool_sync calls on one MCP client
MaxMcpCalls == 3
\* threads that share the module's CLIENT, and calls each of them makes
MaxThreads == 3
MaxThreadCalls == 2

Ports == 0..MaxPort
NoPort == -1
\* container_name=None of the restart parser
NoName == [kind |-> "none"]
\* healthy_at value of an instance that never turns healthy
NeverHealthy == -1
\* start_time=None of _wait_for_container_ready_with_progress
None == -2

VARIABLES
    fleet,              \* runtime: the containers that exist (all running: --rm), each
                        \* with healthy_at, the tick from which /health answers
    host_bound,         \* host: ports bound by processes outside the fleet
    now,                \* time.time()
    pc,                 \* position of the operator's command
    args,               \* argparse.Namespace of the command in progress
    port_sets,          \* _launch_containers: port_sets
    container_configs,  \* _launch_containers: container_configs
    idx,                \* _launch_containers: idx of the launch loop
    sleep_left,         \* _launch_containers: remaining time.sleep(1) of the stagger
    launched,           \* _launch_containers: launched
    start_time,         \* _launch_containers: start_time of the readiness loop
    widx,               \* _launch_containers: position in `for container in launched`
    wait_start,         \* _wait_for_container_ready_with_progress: start_time
    wait_timeout,       \* _wait_for_container_ready_with_progress: timeout
    wait_port,          \* _wait_for_container_ready_with_progress: backend_port
    wait_result,        \* return value of the last finished wait, or "none"
    results,            \* the LaunchResult of every launch call of the batch
    calls,              \* runtime calls issued by the command, in order
    output,             \* panels printed by the command
    exit_code,          \* sys.exit status of the command (0 when it returned)
    rm_destroyed,       \* _destroy_containers: destroyed
    rm_failed,          \* _destroy_containers: failed
    launch_returned,    \* history: name -> tick at which its launch call returned
    probed,             \* history: backend ports probed by the command
    wait_called,        \* history: tick at which the wait in progress was called
    waited,             \* history: backend ports the batch called the wait with, in order
    removed,            \* history: the containers the latest rm command removed
    ops,                \* number of timed commands so far
    stopped,            \* runtime: names of the containers that exist but do not run
    servers,            \* runtime: names of the containers whose server process is up
    rs,                 \* _restart_server: running_containers still to do, the calls
                        \* made so far, success_count
    other,              \* a second operator's _launch_containers: its container_configs,
                        \* its idx and the results of its launch calls
    cancel_signal,      \* an interrupt sent to the command: "none", "pending" (delivered,
                        \* not acted on) or "raised" (the process was ended by it)
    agent,              \* an agent object: history_images, history_responses, the
                        \* position of its predict call and what the call sent and returned
    chat,               \* BaseAgent.openai_chat_completions_create: its locals and the
                        \* API calls it made
    mcp,                \* a SyncMCPClient: self.tools, and the locals and the trace of
                        \* its list_tools or call_tool in progress
    threads,            \* threads that use the module's CLIENT under client_lock
    hide                \* _hide_history_images: the messages passed in and returned

vars == <<fleet, host_bound, now, pc, args, port_sets, container_configs,
          idx, sleep_left, launched, start_time, widx, wait_start, wait_timeout,
          wait_port, wait_result, results, calls, output, exit_code, rm_destroyed,
          rm_failed, launch_returned, probed, wait_called, ops, waited, removed,
          stopped, servers, rs, other, cancel_signal, agent, chat, mcp, threads, hide>>

\* the state of the agents and of the MCP client, which no mw env command touches
lib == <<agent, chat, mcp, threads, hide>>

\* the state that belongs to the restart command and to the second operator
aux == <<stopped, servers, rs, other, cancel_signal, lib>>

\* ------------------------------------------------------------------ helpers
Range(s) == {s[i] : i \in DOMAIN s}

ConfigPorts(c) == {c.backend_port, c.viewer_port, c.vnc_port, c.adb_port}

FleetPorts(f) == UNION {ConfigPorts(c) : c \in f}

FleetNames(f) == {c.name : c \in f}

\* is_port_available: a port is free when no process and no container holds it
BoundPorts(f, hb) == hb \cup FleetPorts(f)

\* ------------------------------------------------------------------ PortAllocator
RECURSIVE ScanFrom(_, _, _)
\* mutant: after a port that is taken the scan steps over the next port as well
ScanFrom_StepTwo(p, bound, allocated) ==
    IF p > MaxPort THEN NoPort
    ELSE IF p \notin bound /\ p \notin allocated THEN p
    ELSE ScanFrom(p + 2, bound, allocated)
\* the lowest port from p upward that is neither bound nor allocated in this call
ScanFrom(p, bound, allocated) ==
    IF p > MaxPort THEN NoPort
    ELSE IF p \notin bound /\ p \notin allocated THEN p
    ELSE ScanFrom(p + 1, bound, allocated)

\* one quadruple: each family takes its lowest port that is neither bound on the host
\* nor taken earlier in this call
NextQuad(b0, v0, n0, a0, bound, allocated) ==
    LET b == ScanFrom(b0, bound, allocated)
    IN  IF b = NoPort THEN <<>>
        ELSE LET v == ScanFrom(v0, bound, allocated \cup {b})
             IN  IF v = NoPort THEN <<>>
                 ELSE LET n == ScanFrom(n0, bound, allocated \cup {b, v})
                      IN  IF n = NoPort THEN <<>>
                          ELSE LET a == ScanFrom(a0, bound, allocated \cup {b, v, n})
                               IN  IF a = NoPort THEN <<>> ELSE <<b, v, n, a>>

RECURSIVE FindPortsFrom(_, _, _, _, _, _, _)
FindPortsFrom(b0, v0, n0, a0, left, bound, allocated) ==
    IF left = 0 THEN <<>>
    ELSE LET q == NextQuad(b0, v0, n0, a0, bound, allocated)
         IN  IF q = <<>> THEN <<>>
             ELSE <<q>> \o FindPortsFrom(b0, v0, n0, a0, left - 1, bound,
                                         allocated \cup {q[1], q[2], q[3], q[4]})

find_available_ports(backend_start, viewer_start, vnc_start, adb_start, count, bound) ==
    FindPortsFrom(backend_start, viewer_start, vnc_start, adb_start,
                  IF count > 0 THEN count ELSE 0, bound, {})

\* ------------------------------------------------------------------ IdentityAssigner
\* mutant: the dev suffix is left out of the name
ContainerName_NoDevSuffix(prefix, index, dev) == <<prefix, index>>

\* f"{prefix}_{index}{'_dev' if dev else ''}" as its parts
ContainerName(prefix, index, dev) ==
    IF dev THEN <<prefix, index, "dev">> ELSE <<prefix, index>>

IsDevName(name) == Len(name) = 3

SetMax(S) == CHOOSE m \in S : \A x \in S : x <= m

find_next_container_index(f, prefix, dev) ==
    LET used == {c.name[2] : c \in {d \in f : d.name[1] = prefix /\ IsDevName(d.name) = dev}}
    IN  IF used = {} THEN 0 ELSE SetMax(used) + 1

\* ------------------------------------------------------------------ run: planning
\* mutant: the count check is off by one
DevModeRejected_OffByOne(a) == a.dev /\ a.count > 2

\* "Dev mode only allows single container"
DevModeRejected(a) == a.dev /\ a.count > 1

\* mutant: the warning is printed only when no port set was found
PortWarning_OnlyWhenEmpty(sets, count) == Len(sets) = 0

PortWarning(sets, count) == Len(sets) < count

\* the .env file of the working directory, else --env-file when it is a file
EnvFileError(a) ==
    IF a.env = "cwd" THEN "none"
    ELSE IF a.env = "given_file" THEN "none"
    ELSE IF a.env = "given_missing" THEN "env_not_found"
    ELSE IF a.env = "given_dir" THEN "env_not_a_file"
    ELSE "env_none"

\* mutant: the viewer port is taken from the backend slot of the port set
BuildConfig_ViewerFromBackend(a, start_index, i, ps) ==
    [name         |-> ContainerName(a.name_prefix, start_index + i, a.dev),
     backend_port |-> ps[1],
     viewer_port  |-> ps[1],
     vnc_port     |-> ps[3],
     adb_port     |-> ps[4],
     dev_mode     |-> a.dev,
     enable_vnc   |-> a.vnc \/ a.dev]

\* mutant: every configuration of the batch gets the start index
BuildConfig_SameIndex(a, start_index, i, ps) ==
    [name         |-> ContainerName(a.name_prefix, start_index, a.dev),
     backend_port |-> ps[1],
     viewer_port  |-> ps[2],
     vnc_port     |-> ps[3],
     adb_port     |-> ps[4],
     dev_mode     |-> a.dev,
     enable_vnc   |-> a.vnc \/ a.dev]

BuildConfig(a, start_index, i, ps) ==
    [name         |-> ContainerName(a.name_prefix, start_index + i, a.dev),
     backend_port |-> ps[1],
     viewer_port  |-> ps[2],
     vnc_port     |-> ps[3],
     adb_port     |-> ps[4],
     dev_mode     |-> a.dev,
     enable_vnc   |-> a.vnc \/ a.dev]

\* enumerate(port_sets) counts from 0
BuildConfigs(a, sets, start_index) ==
    [k \in 1..Len(sets) |-> BuildConfig(a, start_index, k - 1, sets[k])]

NoOutput ==
    [error |-> "none", port_warning |-> FALSE, dry_run |-> FALSE, launch_failed |-> {},
     not_ready |-> {}, complete |-> FALSE, launched_count |-> 0, ready_count |-> 0,
     nothing_to_destroy |-> FALSE, listing |-> [format |-> "none", rows |-> {}]]

NoArgs == [cmd |-> "none"]

\* no restart command has run
NoRestart == [queue |-> <<>>, calls |-> <<>>, success_count |-> 0, total |-> 0]

\* no second operator is at work
NoOther == [pc |-> "none", configs |-> <<>>, idx |-> 0, results |-> <<>>]

\* what a command starts from: the locals of the previous command are gone
FreshLocals ==
    /\ sleep_left' = 0
    /\ launched' = <<>>
    /\ start_time' = None
    /\ widx' = 0
    /\ wait_result' = "none"
    /\ results' = <<>>
    /\ launch_returned' = <<>>
    /\ probed' = {}
    /\ waited' = <<>>

NoRemoval ==
    /\ rm_destroyed' = <<>>
    /\ rm_failed' = <<>>

NoPlan ==
    /\ port_sets' = <<>>
    /\ container_configs' = <<>>
    /\ idx' = 0

NoWait ==
    /\ wait_start' = None
    /\ wait_timeout' = 0
    /\ wait_port' = NoPort
    /\ wait_called' = None

\* _launch_containers up to the launch loop: the checks, the plan, the dry run
\* mutant: the dry run goes on to the launch loop
AfterPlanPc_IgnoreDryRun(a, cfgs) == IF Len(cfgs) = 0 THEN "readiness" ELSE "launch"

\* if args.dry_run: ... return; otherwise the launch loop, which an empty plan skips
AfterPlanPc(a, cfgs) ==
    IF a.dry_run THEN "idle"
    ELSE IF Len(cfgs) = 0 THEN "readiness" ELSE "launch"

\* _launch_containers up to the launch loop
RunRequest(a) ==
    /\ pc = "idle"
    /\ args' = a
    /\ FreshLocals
    /\ NoWait
    /\ NoRemoval
    /\ UNCHANGED <<fleet, host_bound, now, removed>>
    /\ UNCHANGED aux
    /\ IF DevModeRejected(a)
       THEN /\ pc' = "idle"
            /\ exit_code' = 1
            /\ calls' = {}
            /\ output' = [NoOutput EXCEPT !.error = "dev_count"]
            /\ NoPlan
       ELSE LET sets == find_available_ports(a.bases[1], a.bases[2], a.bases[3], a.bases[4],
                                             a.count, BoundPorts(fleet, host_bound))
                warn == PortWarning(sets, a.count)
                err  == EnvFileError(a)
                start_index == find_next_container_index(fleet, a.name_prefix, a.dev)
                cfgs == BuildConfigs(a, sets, start_index)
            IN  IF err # "none"
                THEN /\ pc' = "idle"
                     /\ exit_code' = 1
                     /\ calls' = {"ports"}
                     /\ output' = [NoOutput EXCEPT !.error = err, !.port_warning = warn]
                     /\ port_sets' = sets
                     /\ container_configs' = <<>>
                     /\ idx' = 0
                ELSE /\ exit_code' = 0
                     /\ calls' = {"ports", "inventory"}
                     /\ output' = [NoOutput EXCEPT !.port_warning = warn,
                                                   !.dry_run = a.dry_run]
                     /\ port_sets' = sets
                     /\ container_configs' = cfgs
                     /\ idx' = IF a.dry_run THEN 0 ELSE 1
                     /\ pc' = AfterPlanPc(a, cfgs)

\* ------------------------------------------------------------------ run: launch loop
\* the runtime refuses a name or a host port that is in use
RuntimeAccepts(f, hb, cfg) ==
    /\ cfg.name \notin FleetNames(f)
    /\ ConfigPorts(cfg) \cap BoundPorts(f, hb) = {}

\* launch_container(config, wait_ready=False)
launch_container(cfg, ok) ==
    [name          |-> cfg.name,
     backend_port  |-> cfg.backend_port,
     viewer_port   |-> cfg.viewer_port,
     adb_port      |-> cfg.adb_port,
     vnc_port      |-> cfg.vnc_port,
     success       |-> ok,
     ready         |-> FALSE,
     error_message |-> IF ok THEN "none" ELSE "launch failed"]

Container(cfg, h) ==
    [name         |-> cfg.name,
     backend_port |-> cfg.backend_port,
     viewer_port  |-> cfg.viewer_port,
     vnc_port     |-> cfg.vnc_port,
     adb_port     |-> cfg.adb_port,
     healthy_at   |-> h]

\* if result.success: launched.append({...})
AfterLaunch(l, cfg, result) ==
    IF result.success
    THEN Append(l, [name         |-> cfg.name,
                    backend_port |-> cfg.backend_port,
                    viewer_port  |-> cfg.viewer_port,
                    vnc_port     |-> cfg.vnc_port,
                    adb_port     |-> cfg.adb_port,
                    ready        |-> FALSE])
    ELSE l

\* mutant: the stagger also follows the last launch
StaggerNeeded_AlsoAfterLast(launch_interval, i, n) == launch_interval > 0 /\ i <= n

\* if launch_interval > 0 and idx < len(container_configs) - 1  (idx counted from 1 here)
StaggerNeeded(launch_interval, i, n) == launch_interval > 0 /\ i < n

\* mutant: a failed launch ends the launch loop
AfterLaunchPc_StopOnFailure(i, n, success) ==
    IF ~success THEN "readiness" ELSE IF i < n THEN "launch" ELSE "readiness"

\* the position after the launch of configuration i of n: the loop goes on to the next
\* configuration whatever the result
AfterLaunchPc(i, n, success) == IF i < n THEN "launch" ELSE "readiness"

LaunchOne(delays) ==
    /\ pc = "launch"
    /\ LET cfg == container_configs[idx]
           n   == Len(container_configs)
       IN  \E ok \in BOOLEAN : \E d \in IF ok THEN delays ELSE {NeverHealthy} :
             /\ ok => RuntimeAccepts(fleet, host_bound, cfg)
             /\ LET result == launch_container(cfg, ok)
                    h      == IF d = NeverHealthy THEN NeverHealthy ELSE now + d
                IN  /\ results' = Append(results, result)
                    /\ fleet' = IF ok THEN fleet \cup {Container(cfg, h)} ELSE fleet
                    /\ launched' = AfterLaunch(launched, cfg, result)
                    /\ output' = IF result.success THEN output
                                 ELSE [output EXCEPT !.launch_failed = @ \cup {cfg.name}]
                    /\ launch_returned' = Append(launch_returned, now)
                    /\ calls' = calls \cup {"launch"}
                    /\ IF StaggerNeeded(args.launch_interval, idx, n)
                       THEN /\ pc' = "sleep"
                            /\ sleep_left' = args.launch_interval
                            /\ idx' = idx
                       ELSE /\ pc' = AfterLaunchPc(idx, n, result.success)
                            /\ sleep_left' = 0
                            /\ idx' = idx + 1
    /\ UNCHANGED <<host_bound, now, args, port_sets, container_configs, start_time, widx,
                   wait_start, wait_timeout, wait_port, wait_result, exit_code,
                   rm_destroyed, rm_failed, probed, wait_called, ops, removed, waited>>
    /\ UNCHANGED aux

\* for _ in range(launch_interval): time.sleep(1)
StaggerSleep ==
    /\ pc = "sleep"
    /\ now' = now + 1
    /\ sleep_left' = sleep_left - 1
    /\ IF sleep_left - 1 = 0
       THEN /\ pc' = "launch"
            /\ idx' = idx + 1
       ELSE UNCHANGED <<pc, idx>>
    /\ UNCHANGED <<fleet, host_bound, args, port_sets, container_configs, launched,
                   start_time, widx, wait_start, wait_timeout, wait_port, wait_result,
                   results, calls, output, exit_code, rm_destroyed, rm_failed,
                   launch_returned, probed, wait_called, ops, removed, waited>>
    /\ UNCHANGED aux

\* ------------------------------------------------------------------ run: readiness
ReadyCount(l) == Cardinality({k \in DOMAIN l : l[k].ready})

\* the "Launch Complete" panel
Summary(out, l) ==
    [out EXCEPT !.complete = TRUE, !.launched_count = Len(l), !.ready_count = ReadyCount(l)]

\* if launched: start_time = time.time()
BeginReadiness ==
    /\ pc = "readiness"
    /\ IF launched # <<>>
       THEN /\ start_time' = now
            /\ widx' = 1
            /\ pc' = "wait_call"
            /\ UNCHANGED output
       ELSE /\ pc' = "idle"
            /\ output' = Summary(output, launched)
            /\ UNCHANGED <<start_time, widx>>
    /\ UNCHANGED <<fleet, host_bound, now, args, port_sets, container_configs, idx,
                   sleep_left, launched, wait_start, wait_timeout, wait_port, wait_result,
                   results, calls, exit_code, rm_destroyed, rm_failed, launch_returned,
                   probed, wait_called, ops, removed, waited>>
    /\ UNCHANGED aux

\* start_time = start_time or time.time()
StartOrNow(st, t) == IF st = None \/ st = 0 THEN t ELSE st

\* the start_time argument the batch passes for each container
BatchStartArg(st) == st

\* _wait_for_container_ready_with_progress(container["backend_port"], timeout=600, start_time=start_time)
WaitCall ==
    /\ pc = "wait_call"
    /\ wait_port' = launched[widx].backend_port
    /\ wait_timeout' = LaunchReadyTimeout
    /\ wait_start' = StartOrNow(BatchStartArg(start_time), now)
    /\ wait_result' = "none"
    /\ wait_called' = now
    /\ waited' = Append(waited, launched[widx].backend_port)
    /\ pc' = "polling"
    /\ UNCHANGED <<fleet, host_bound, now, args, port_sets, container_configs, idx,
                   sleep_left, launched, start_time, widx, results, calls, output,
                   exit_code, rm_destroyed, rm_failed, launch_returned, probed, ops, removed>>
    /\ UNCHANGED aux

\* wait_for_container_ready(backend_port, timeout=1, poll_interval=1): one health probe
wait_for_container_ready(f, port, t) ==
    \E c \in f : c.backend_port = port /\ c.healthy_at # NeverHealthy /\ c.healthy_at <= t

\* mutant: the loop still probes when the whole timeout has elapsed
WaitLoopGuard_Inclusive(t, st, timeout) == t - st <= timeout

\* while time.time() - start_time < timeout
WaitLoopGuard(t, st, timeout) == t - st < timeout

WaitPoll ==
    /\ pc = "polling"
    /\ WaitLoopGuard(now, wait_start, wait_timeout)
    /\ probed' = probed \cup {wait_port}
    /\ calls' = calls \cup {"probe"}
    /\ IF wait_for_container_ready(fleet, wait_port, now)
       THEN /\ wait_result' = "ready"
            /\ pc' = "wait_return"
            /\ UNCHANGED now
       ELSE /\ now' = now + 1
            /\ UNCHANGED <<wait_result, pc>>
    /\ UNCHANGED <<fleet, host_bound, args, port_sets, container_configs, idx, sleep_left,
                   launched, start_time, widx, wait_start, wait_timeout, wait_port,
                   results, output, exit_code, rm_destroyed, rm_failed, launch_returned,
                   wait_called, ops, removed, waited>>
    /\ UNCHANGED aux

WaitExpire ==
    /\ pc = "polling"
    /\ ~WaitLoopGuard(now, wait_start, wait_timeout)
    /\ wait_result' = "timeout"
    /\ pc' = "wait_return"
    /\ UNCHANGED <<fleet, host_bound, now, args, port_sets, container_configs, idx,
                   sleep_left, launched, start_time, widx, wait_start, wait_timeout,
                   wait_port, results, calls, output, exit_code, rm_destroyed, rm_failed,
                   launch_returned, probed, wait_called, ops, removed, waited>>
    /\ UNCHANGED aux

\* mutant: a container that did not become ready is removed
AfterNotReady_Destroy(f, name) == {c \in f : c.name # name}

\* the fleet after a wait that ended without the container being ready
AfterNotReady(f, name) == f

\* back in the caller: the batch marks the container and goes on, the standalone wait ends
WaitReturn ==
    /\ pc = "wait_return"
    /\ IF args.cmd = "run"
       THEN LET ready == wait_result = "ready"
                l     == [launched EXCEPT ![widx].ready = ready]
                out   == IF ready THEN output
                         ELSE [output EXCEPT !.not_ready = @ \cup {launched[widx].name}]
            IN  /\ launched' = l
                /\ fleet' = IF ready THEN fleet ELSE AfterNotReady(fleet, launched[widx].name)
                /\ widx' = widx + 1
                /\ IF widx < Len(launched)
                   THEN /\ pc' = "wait_call"
                        /\ output' = out
                   ELSE /\ pc' = "idle"
                        /\ output' = Summary(out, l)
       ELSE /\ pc' = "idle"
            /\ UNCHANGED <<launched, fleet, widx, output>>
    /\ UNCHANGED <<host_bound, now, args, port_sets, container_configs, idx, sleep_left,
                   start_time, wait_start, wait_timeout, wait_port, wait_result, results,
                   calls, exit_code, rm_destroyed, rm_failed, launch_returned, probed,
                   wait_called, ops, removed, waited>>
    /\ UNCHANGED aux

\* a caller's own _wait_for_container_ready_with_progress(port, timeout): start_time=None
WaitReadyRequest(port, timeout) ==
    /\ pc = "idle"
    /\ args' = [cmd |-> "wait"]
    /\ FreshLocals
    /\ NoPlan
    /\ NoRemoval
    /\ wait_port' = port
    /\ wait_timeout' = timeout
    /\ wait_start' = StartOrNow(None, now)
    /\ wait_called' = now
    /\ pc' = "polling"
    /\ calls' = {}
    /\ output' = NoOutput
    /\ exit_code' = 0
    /\ UNCHANGED <<fleet, host_bound, now, removed>>
    /\ UNCHANGED aux

\* ------------------------------------------------------------------ rm
\* mutant: the given names are dropped, so the removal goes by the prefix filter
DestroyByName_Never(a) == FALSE

\* mutant: --all is not looked at, names given with --all still select the targets
DestroyByName_IgnoreAll(a) == a.container_names # <<>>

\* container_names stays None unless names are given without --all
DestroyByName(a) == ~a.all /\ a.container_names # <<>>

RECURSIVE SetToSeq(_)
SetToSeq(S) ==
    IF S = {} THEN <<>>
    ELSE LET x == CHOOSE y \in S : TRUE
         IN  <<x>> \o SetToSeq(S \ {x})

\* list_containers(name_prefix=...): the containers whose name starts with the prefix
MatchingNames(f, prefix) == {n \in FleetNames(f) : n[1] = prefix}

\* the removal of each target in turn; `failing` are the names the runtime fails to remove
RECURSIVE RemoveEach(_, _, _)
RemoveEach(names, f, failing) ==
    IF names = <<>> THEN [fleet |-> f, destroyed |-> <<>>, failed |-> <<>>]
    ELSE LET n == Head(names)
         IN  IF n \notin FleetNames(f)
             THEN RemoveEach(Tail(names), f, failing)
             ELSE IF n \in failing
             THEN LET r == RemoveEach(Tail(names), f, failing)
                  IN  [r EXCEPT !.failed = <<n>> \o @]
             ELSE LET r == RemoveEach(Tail(names), {c \in f : c.name # n}, failing)
                  IN  [r EXCEPT !.destroyed = <<n>> \o @]

\* the names a removal is about: the given ones, else every container of the prefix
RemovalTargets(by_name, names, prefix, f) ==
    IF by_name THEN Range(names) ELSE MatchingNames(f, prefix)

remove_containers(by_name, names, prefix, f, failing) ==
    RemoveEach(IF by_name THEN names ELSE SetToSeq(MatchingNames(f, prefix)), f, failing)

\* _destroy_containers
DestroyRequest(a) ==
    /\ pc = "idle"
    /\ args' = a
    /\ FreshLocals
    /\ NoPlan
    /\ NoWait
    /\ \E failing \in SUBSET (FleetNames(fleet) \cap
                              RemovalTargets(DestroyByName(a), a.container_names,
                                             a.name_prefix, fleet)) :
         LET r == remove_containers(DestroyByName(a), a.container_names, a.name_prefix,
                                    fleet, failing)
         IN  /\ fleet' = r.fleet
             /\ rm_destroyed' = r.destroyed
             /\ rm_failed' = r.failed
             /\ removed' = {c \in fleet : c.name \in Range(r.destroyed)}
             /\ output' = [NoOutput EXCEPT
                             !.nothing_to_destroy = (r.destroyed = <<>> /\ r.failed = <<>>)]
    /\ calls' = {"remove"}
    /\ exit_code' = 0
    /\ UNCHANGED <<host_bound, now, pc>>
    /\ UNCHANGED aux

\* ------------------------------------------------------------------ restart
\* a bare index is completed with the prefix, a full name is taken as it is
resolve_container_name(typed, prefix) ==
    IF typed.kind = "index" THEN ContainerName(prefix, typed.index, FALSE) ELSE typed.name

\* list_containers(name_prefix=..., include_all=False): the running containers of the prefix
list_containers(f, st, prefix) == {c \in f : c.name[1] = prefix /\ c.name \notin st}

\* mutant: the stopped containers of the prefix are restarted too
RunningContainers_All(f, st, prefix) == SetToSeq({c.name : c \in {d \in f : d.name[1] = prefix}})

\* running_containers = [c for c in containers if c.running]
RunningContainers(f, st, prefix) ==
    SetToSeq({c.name : c \in {d \in list_containers(f, st, prefix) : d.name \notin st}})

\* the server of a container can be killed when the container exists and runs
kill_server_in_container(f, st, name, ok) == ok /\ name \in FleetNames(f) /\ name \notin st

\* _restart_server up to the first call
RestartRequest(a) ==
    /\ pc = "idle"
    /\ args' = a
    /\ FreshLocals
    /\ NoPlan
    /\ NoWait
    /\ NoRemoval
    /\ calls' = {}
    /\ IF a.container_name # NoName
       THEN /\ rs' = [queue |-> <<resolve_container_name(a.container_name, a.name_prefix)>>,
                      calls |-> <<>>, success_count |-> 0, total |-> 1]
            /\ pc' = "rs_kill"
            /\ exit_code' = 0
            /\ output' = NoOutput
       ELSE IF a.interactive
       THEN /\ rs' = NoRestart
            /\ pc' = "idle"
            /\ exit_code' = 1
            /\ output' = [NoOutput EXCEPT !.error = "interactive_many"]
       ELSE LET running_containers == RunningContainers(fleet, stopped, a.name_prefix)
            IN  /\ rs' = [queue |-> running_containers, calls |-> <<>>,
                          success_count |-> 0, total |-> Len(running_containers)]
                /\ pc' = IF running_containers = <<>> THEN "idle" ELSE "rs_kill"
                /\ exit_code' = 0
                /\ output' = NoOutput
    /\ UNCHANGED <<fleet, host_bound, now, removed, stopped, servers, other, cancel_signal,
                   lib>>

\* mutant: a failed restart ends the loop over the running containers
AfterRestartQueue_StopOnFailure(queue, success) == IF success THEN Tail(queue) ELSE <<>>

\* for c in running_containers: the loop goes on whatever _restart_single_container returned
AfterRestartQueue(queue, success) == Tail(queue)

\* mutant: a container whose restart failed is removed
AfterRestartFleet_RemoveFailed(f, name, success) ==
    IF success THEN f ELSE {c \in f : c.name # name}

\* the containers after _restart_single_container returned: none is created or removed
AfterRestartFleet(f, name, success) == f

\* back in _restart_server with the result of _restart_single_container
RestartReturned(name, success, r) ==
    /\ fleet' = AfterRestartFleet(fleet, name, success)
    /\ IF args.container_name # NoName
       THEN /\ rs' = [r EXCEPT !.queue = <<>>,
                               !.success_count = IF success THEN 1 ELSE 0]
            /\ exit_code' = IF success THEN 0 ELSE 1
            /\ pc' = "idle"
       ELSE LET q == AfterRestartQueue(r.queue, success)
            IN  /\ rs' = [r EXCEPT !.queue = q,
                                   !.success_count = IF success THEN @ + 1 ELSE @]
                /\ exit_code' = 0
                /\ pc' = IF q = <<>> THEN "idle" ELSE "rs_kill"

\* mutant: the start command is issued whatever the kill returned
StartAfterKill_Always(killed) == TRUE

\* if not kill_server_in_container(container_name): return False
StartAfterKill(killed) == killed

\* _restart_single_container: kill_server_in_container
RestartKill ==
    /\ pc = "rs_kill"
    /\ \E ok \in BOOLEAN :
         LET name   == Head(rs.queue)
             killed == kill_server_in_container(fleet, stopped, name, ok)
             r      == [rs EXCEPT !.calls = Append(@, [op |-> "kill", name |-> name,
                                                       ok |-> killed])]
         IN  /\ servers' = IF killed THEN servers \ {name} ELSE servers
             /\ IF StartAfterKill(killed)
                THEN /\ rs' = r
                     /\ pc' = "rs_start"
                     /\ UNCHANGED <<fleet, exit_code>>
                ELSE RestartReturned(name, FALSE, r)
    /\ UNCHANGED <<host_bound, now, args, port_sets, container_configs, idx, sleep_left,
                   launched, start_time, widx, wait_start, wait_timeout, wait_port,
                   wait_result, results, calls, output, rm_destroyed, rm_failed,
                   launch_returned, probed, wait_called, ops, removed, waited, stopped,
                   other, cancel_signal, lib>>

\* _restart_single_container: docker_exec_replace when interactive, else
\* restart_server_in_container(detach=True)
RestartStart ==
    /\ pc = "rs_start"
    /\ \E ok \in BOOLEAN :
         LET name    == Head(rs.queue)
             started == args.interactive \/ ok
             r       == [rs EXCEPT !.calls =
                            Append(@, [op   |-> IF args.interactive THEN "exec" ELSE "start",
                                       name |-> name, ok |-> started])]
         IN  /\ servers' = IF started THEN servers \cup {name} ELSE servers
             /\ RestartReturned(name, started, r)
    /\ UNCHANGED <<host_bound, now, args, port_sets, container_configs, idx, sleep_left,
                   launched, start_time, widx, wait_start, wait_timeout, wait_port,
                   wait_result, results, calls, output, rm_destroyed, rm_failed,
                   launch_returned, probed, wait_called, ops, removed, waited, stopped,
                   other, cancel_signal, lib>>

\* ------------------------------------------------------------------ inputs
\* the four start ports of a run request: spread, adjacent, and crossing families
BaseChoices == {<<0, 2, 4, 6>>, <<0, 1, 2, 3>>}

EnvStates == {"cwd", "given_file", "given_missing", "given_dir", "none"}

RunArgs ==
    [cmd : {"run"}, count : 1..MaxCount, dev : BOOLEAN, vnc : {FALSE}, dry_run : BOOLEAN,
     launch_interval : 0..MaxLaunchInterval, bases : BaseChoices, env : EnvStates,
     name_prefix : {"env"}]

HealthDelays == (0..MaxHealthDelay) \cup {NeverHealthy}

HostBoundChoices == {S \in SUBSET Ports : Cardinality(S) <= MaxHostBound}

\* ------------------------------------------------------------------ specification
\* no agent, no chat call, no MCP client are at work
Unused == [pc |-> "none"]

IdleCommand ==
    /\ pc = "idle"
    /\ args = NoArgs
    /\ port_sets = <<>>
    /\ container_configs = <<>>
    /\ idx = 0
    /\ sleep_left = 0
    /\ launched = <<>>
    /\ start_time = None
    /\ widx = 0
    /\ wait_start = None
    /\ wait_timeout = 0
    /\ wait_port = NoPort
    /\ wait_result = "none"
    /\ wait_called = None
    /\ results = <<>>
    /\ calls = {}
    /\ output = NoOutput
    /\ exit_code = 0
    /\ rm_destroyed = <<>>
    /\ rm_failed = <<>>
    /\ launch_returned = <<>>
    /\ probed = {}
    /\ waited = <<>>
    /\ removed = {}
    /\ ops = 0
    /\ rs = NoRestart
    /\ other = NoOther
    /\ cancel_signal = "none"

Idle ==
    /\ agent = Unused
    /\ chat = Unused
    /\ mcp = Unused
    /\ threads = Unused
    /\ hide = Unused
    /\ IdleCommand

\* no mw env command runs, no container exists
NoCommand ==
    /\ fleet = {}
    /\ host_bound = {}
    /\ now = 1
    /\ stopped = {}
    /\ servers = {}
    /\ IdleCommand

\* the state of the mw env commands, which the agents and the MCP client do not touch
cli == <<fleet, host_bound, now, pc, args, port_sets, container_configs,
         idx, sleep_left, launched, start_time, widx, wait_start, wait_timeout,
         wait_port, wait_result, results, calls, output, exit_code, rm_destroyed,
         rm_failed, launch_returned, probed, wait_called, ops, waited, removed,
         stopped, servers, rs, other, cancel_signal>>

\* one operator, commands that take time: a batch launch and readiness waits
Init ==
    /\ fleet = {}
    /\ host_bound \in {{}, {1}}
    /\ now = 1
    /\ Idle
    /\ stopped = {}
    /\ servers = {}

TimedRun ==
    /\ pc = "idle"
    /\ ops < MaxOps
    /\ ops' = ops + 1
    /\ \E a \in RunArgs : RunRequest(a)

TimedLaunch == LaunchOne(HealthDelays)

TimedWait ==
    /\ pc = "idle"
    /\ ops < MaxOps
    /\ ops' = ops + 1
    /\ \E c \in fleet, t \in 1..MaxWaitTimeout : WaitReadyRequest(c.backend_port, t)

Next ==
    \/ TimedRun
    \/ TimedLaunch
    \/ StaggerSleep
    \/ BeginReadiness
    \/ WaitCall
    \/ WaitPoll
    \/ WaitExpire
    \/ WaitReturn
    \/ TimedWait

Spec == Init /\ [][Next]_vars

\* ------------------------------------------------------------------ untimed fleet
\* one operator issuing run and rm commands in any order; every instance answers
\* /health at once and no stagger is asked, so no time passes
FleetRunArgs ==
    [cmd : {"run"}, count : 1..MaxCount, dev : BOOLEAN, vnc : {FALSE}, dry_run : BOOLEAN,
     launch_interval : {0}, bases : BaseChoices, env : {"cwd"}, name_prefix : {"env"}]

\* names an operator may type: every numbered name, and the first dev name
NameChoices ==
    {ContainerName("env", i, FALSE) : i \in 0..MaxIndex} \cup {ContainerName("env", 0, TRUE)}

NameLists == {<<>>} \cup {<<n>> : n \in NameChoices}
             \cup {<<n, m>> : n \in NameChoices, m \in NameChoices}

\* rm with names, rm without names, rm --all with and without names
DestroyArgs ==
    [cmd : {"rm"}, all : {FALSE}, container_names : NameLists, name_prefix : {"env"}]
    \cup [cmd : {"rm"}, all : {TRUE},
          container_names : {<<>>, <<ContainerName("env", 0, FALSE)>>},
          name_prefix : {"env"}]
    \cup [cmd : {"rm"}, all : {FALSE}, container_names : {<<>>}, name_prefix : {"other"}]

InitFleet ==
    /\ fleet = {}
    /\ host_bound \in {{}, {1}}
    /\ now = 1
    /\ Idle
    /\ stopped = {}
    /\ servers = {}

FleetRun ==
    /\ pc = "idle"
    /\ UNCHANGED ops
    /\ \E a \in FleetRunArgs :
        /\ find_next_container_index(fleet, a.name_prefix, a.dev) + a.count - 1 <= MaxIndex
        /\ RunRequest(a)

FleetLaunch == LaunchOne({0})

FleetDestroy ==
    /\ pc = "idle"
    /\ UNCHANGED ops
    /\ \E a \in DestroyArgs : DestroyRequest(a)

NextFleet ==
    \/ FleetRun
    \/ FleetLaunch
    \/ BeginReadiness
    \/ WaitCall
    \/ WaitPoll
    \/ WaitReturn
    \/ FleetDestroy

SpecFleet == InitFleet /\ [][NextFleet]_vars

\* ------------------------------------------------------------------ planning alone
\* the plan of one dry run, for every host port table and every four start ports
AllBases ==
    {b \in Ports \X Ports \X Ports \X Ports : Cardinality({b[1], b[2], b[3], b[4]}) = 4}

PlanArgs ==
    [cmd : {"run"}, count : 1..MaxCount, dev : BOOLEAN, vnc : {FALSE}, dry_run : {TRUE},
     launch_interval : {0}, bases : AllBases, env : {"cwd"}, name_prefix : {"env"}]

InitPlan ==
    /\ fleet = {}
    /\ host_bound \in HostBoundChoices
    /\ now = 1
    /\ Idle
    /\ stopped = {}
    /\ servers = {}

PlanRun ==
    /\ args = NoArgs
    /\ UNCHANGED ops
    /\ \E a \in PlanArgs : RunRequest(a)

NextPlan == PlanRun

SpecPlan == InitPlan /\ [][NextPlan]_vars

\* ------------------------------------------------------------------ restart alone
\* three containers of the prefix, each absent, running or stopped, and restart commands
\* on one of them or on all
RestartPlan ==
    BuildConfigs([name_prefix |-> "env", dev |-> FALSE, vnc |-> FALSE],
                 <<<<0, 1, 2, 3>>, <<4, 5, 6, 7>>, <<8, 9, 10, 11>>>>, 0)

RestartFleets == SUBSET {Container(RestartPlan[k], 0) : k \in DOMAIN RestartPlan}

TypedNames ==
    {NoName} \cup {[kind |-> "index", index |-> i] : i \in 0..MaxIndex}
             \cup {[kind |-> "name", name |-> ContainerName("env", MaxIndex + 1, FALSE)]}

RestartArgs ==
    [cmd : {"restart"}, container_name : TypedNames, interactive : BOOLEAN,
     name_prefix : {"env", "other"}]

InitRestart ==
    /\ fleet \in RestartFleets
    /\ host_bound = {}
    /\ now = 1
    /\ Idle
    /\ stopped \in SUBSET FleetNames(fleet)
    /\ servers = FleetNames(fleet) \ stopped

RestartCommand ==
    /\ pc = "idle"
    /\ ops < MaxOps
    /\ ops' = ops + 1
    /\ \E a \in RestartArgs : RestartRequest(a)

NextRestart ==
    \/ RestartCommand
    \/ RestartKill
    \/ RestartStart

SpecRestart == InitRestart /\ [][NextRestart]_vars

\* ------------------------------------------------------------------ two operators
\* a second process runs _launch_containers against the same runtime: it plans from the
\* fleet it sees and then issues its launch calls, interleaved with the first operator's
\* steps; its readiness waits only read the health endpoints
RaceArgs ==
    [cmd : {"run"}, count : 1..MaxCount, dev : {FALSE}, vnc : {FALSE}, dry_run : {FALSE},
     launch_interval : {0}, bases : BaseChoices, env : {"cwd"}, name_prefix : {"env"}]

\* the second operator's find_available_ports, find_next_container_index and
\* container_configs
OtherPlan ==
    /\ other.pc = "none"
    /\ \E a \in RaceArgs :
         LET sets == find_available_ports(a.bases[1], a.bases[2], a.bases[3], a.bases[4],
                                          a.count, BoundPorts(fleet, host_bound))
             start_index == find_next_container_index(fleet, a.name_prefix, a.dev)
             cfgs == BuildConfigs(a, sets, start_index)
         IN  other' = [pc      |-> IF cfgs = <<>> THEN "done" ELSE "launch",
                       configs |-> cfgs,
                       idx     |-> 1,
                       results |-> <<>>]
    /\ UNCHANGED <<fleet, host_bound, now, pc, args, port_sets, container_configs, idx,
                   sleep_left, launched, start_time, widx, wait_start, wait_timeout,
                   wait_port, wait_result, results, calls, output, exit_code, rm_destroyed,
                   rm_failed, launch_returned, probed, wait_called, ops, removed, waited,
                   stopped, servers, rs, cancel_signal, lib>>

\* one iteration of the second operator's launch loop
OtherLaunch ==
    /\ other.pc = "launch"
    /\ LET cfg == other.configs[other.idx]
           n   == Len(other.configs)
       IN  \E ok \in BOOLEAN :
             /\ ok => RuntimeAccepts(fleet, host_bound, cfg)
             /\ LET result == launch_container(cfg, ok)
                    next   == AfterLaunchPc(other.idx, n, result.success)
                IN  /\ fleet' = IF ok THEN fleet \cup {Container(cfg, now)} ELSE fleet
                    /\ other' = [other EXCEPT
                                   !.results = Append(@, result),
                                   !.idx = @ + 1,
                                   !.pc = IF next = "launch" THEN "launch" ELSE "done"]
    /\ UNCHANGED <<host_bound, now, pc, args, port_sets, container_configs, idx,
                   sleep_left, launched, start_time, widx, wait_start, wait_timeout,
                   wait_port, wait_result, results, calls, output, exit_code, rm_destroyed,
                   rm_failed, launch_returned, probed, wait_called, ops, removed, waited,
                   stopped, servers, rs, cancel_signal, lib>>

InitRace ==
    /\ fleet = {}
    /\ host_bound \in {{}, {1}}
    /\ now = 1
    /\ Idle
    /\ stopped = {}
    /\ servers = {}

RaceRun ==
    /\ args = NoArgs
    /\ UNCHANGED ops
    /\ \E a \in RaceArgs : RunRequest(a)

RaceLaunch == LaunchOne({0})

NextRace ==
    \/ RaceRun
    \/ OtherPlan
    \/ RaceLaunch
    \/ OtherLaunch
    \/ BeginReadiness
    \/ WaitCall
    \/ WaitPoll
    \/ WaitReturn

SpecRace == InitRace /\ [][NextRace]_vars

\* ------------------------------------------------------------------ interrupt
\* one batch launch that is sent an interrupt while it launches, sleeps or waits.
\* _launch_containers and _wait_for_container_ready_with_progress install no handler and
\* read no cancellation state: either the interpreter raises KeyboardInterrupt in the
\* running statement, which nothing catches and which ends the process, or the event
\* loop that runs the coroutine `execute` takes the signal as a request to cancel its
\* task, which the synchronous command never looks at
CancelRunArgs ==
    [cmd : {"run"}, count : 1..MaxCount, dev : {FALSE}, vnc : {FALSE}, dry_run : {FALSE},
     launch_interval : 0..MaxLaunchInterval, bases : BaseChoices, env : {"cwd"},
     name_prefix : {"env"}]

CommandRunning == pc \in {"launch", "sleep", "readiness", "wait_call", "polling", "wait_return"}

Interrupt ==
    /\ CommandRunning
    /\ cancel_signal = "none"
    /\ \/ /\ cancel_signal' = "raised"
          /\ pc' = "interrupted"
       \/ /\ cancel_signal' = "pending"
          /\ UNCHANGED pc
    /\ UNCHANGED <<fleet, host_bound, now, args, port_sets, container_configs, idx,
                   sleep_left, launched, start_time, widx, wait_start, wait_timeout,
                   wait_port, wait_result, results, calls, output, exit_code, rm_destroyed,
                   rm_failed, launch_returned, probed, wait_called, ops, removed, waited,
                   stopped, servers, rs, other, lib>>

InitCancel ==
    /\ fleet = {}
    /\ host_bound \in {{}, {1}}
    /\ now = 1
    /\ Idle
    /\ stopped = {}
    /\ servers = {}

CancelRun ==
    /\ args = NoArgs
    /\ UNCHANGED ops
    /\ \E a \in CancelRunArgs : RunRequest(a)

CancelLaunch == LaunchOne(HealthDelays)

NextCancel ==
    \/ CancelRun
    \/ CancelLaunch
    \/ StaggerSleep
    \/ BeginReadiness
    \/ WaitCall
    \/ WaitPoll
    \/ WaitExpire
    \/ WaitReturn
    \/ Interrupt

SpecCancel == InitCancel /\ [][NextCancel]_vars

\* ------------------------------------------------------------------ list
\* list_containers(image_filter, name_prefix, include_all): one ContainerInfo for each
\* container of the prefix, the stopped ones only with include_all; the ports are read
\* from the port mappings of the runtime, which a stopped container does not have
ContainerInfo(c, st) ==
    LET up == c.name \notin st
    IN  [name         |-> c.name,
         status       |-> IF up THEN "Up" ELSE "Exited",
         running      |-> up,
         backend_port |-> IF up THEN c.backend_port ELSE None,
         viewer_port  |-> IF up THEN c.viewer_port ELSE None,
         vnc_port     |-> IF up THEN c.vnc_port ELSE None,
         adb_port     |-> IF up THEN c.adb_port ELSE None]

ListContainerInfos(f, st, prefix, include_all) ==
    {ContainerInfo(c, st) : c \in {d \in f : /\ d.name[1] = prefix
                                            /\ (include_all \/ d.name \notin st)}}

\* one entry of the --json output
JsonRow(c) ==
    [name         |-> c.name,
     status       |-> c.status,
     running      |-> c.running,
     backend_port |-> c.backend_port,
     viewer_port  |-> c.viewer_port,
     vnc_port     |-> c.vnc_port]

\* a cell of the table: the address with the port, or N/A without one (the ports of the
\* model stand for port numbers above zero)
PortCell(host, port) == IF port = None THEN "N/A" ELSE <<host, port>>

\* table.add_row(c.name, c.status or "N/A", backend, viewer, adb, vnc)
TableRow(c) ==
    [Name    |-> c.name,
     Status  |-> c.status,
     Backend |-> PortCell("http://0.0.0.0", c.backend_port),
     Viewer  |-> PortCell("http://0.0.0.0", c.viewer_port),
     ADB     |-> PortCell("localhost", c.adb_port),
     VNC     |-> PortCell("http://0.0.0.0", c.vnc_port)]

Listing(containers, json_output) ==
    IF containers = {} THEN [format |-> "info", rows |-> {}]
    ELSE IF json_output THEN [format |-> "json", rows |-> {JsonRow(c) : c \in containers}]
    ELSE [format |-> "table", rows |-> {TableRow(c) : c \in containers}]

\* _list_containers; the plan and the results of the batch before it stay as they were
ListRequest(a) ==
    /\ pc = "idle"
    /\ args' = a
    /\ output' = [NoOutput EXCEPT
                    !.listing = Listing(ListContainerInfos(fleet, stopped, a.name_prefix,
                                                           a.all), a.json_output)]
    /\ calls' = {"inventory"}
    /\ exit_code' = 0
    /\ UNCHANGED <<fleet, host_bound, now, pc, port_sets, container_configs, idx,
                   sleep_left, launched, start_time, widx, wait_start, wait_timeout,
                   wait_port, wait_result, results, rm_destroyed, rm_failed,
                   launch_returned, probed, wait_called, waited, removed, ops>>
    /\ UNCHANGED aux

\* ------------------------------------------------------------------ naming
\* one run request on a fleet left by earlier runs: numbered containers with a gap in
\* the indices, a dev container, and a container of another prefix, all on ports
\* above the scan window
EarlierNames ==
    {<<"env", 0>>, <<"env", 2>>, <<"env", 1, "dev">>, <<"other", 3>>}

EarlierContainer(name) ==
    LET b == (MaxPort + 1) + 4 * (name[2] + IF Len(name) = 3 THEN 4 ELSE 0)
                           + IF name[1] = "env" THEN 0 ELSE 32
    IN  [name |-> name, backend_port |-> b, viewer_port |-> b + 1, vnc_port |-> b + 2,
         adb_port |-> b + 3, healthy_at |-> 0]

NamesRunArgs ==
    [cmd : {"run"}, count : 1..MaxCount, dev : BOOLEAN, vnc : {FALSE}, dry_run : BOOLEAN,
     launch_interval : {0}, bases : BaseChoices, env : {"cwd"}, name_prefix : {"env"}]

InitNames ==
    /\ fleet \in SUBSET {EarlierContainer(n) : n \in EarlierNames}
    /\ host_bound = {}
    /\ now = 1
    /\ Idle
    /\ stopped = {}
    /\ servers = {}

NamesRun ==
    /\ args = NoArgs
    /\ UNCHANGED ops
    /\ \E a \in NamesRunArgs : RunRequest(a)

NamesLaunch == LaunchOne({0})

NextNames ==
    \/ NamesRun
    \/ NamesLaunch
    \/ BeginReadiness
    \/ WaitCall
    \/ WaitPoll
    \/ WaitReturn

SpecNames == InitNames /\ [][NextNames]_vars

\* ------------------------------------------------------------------ plan, launch, list
\* one run request on a fleet left by earlier runs, one of them stopped, followed by a
\* list command
ListArgs ==
    [cmd : {"list"}, all : BOOLEAN, json_output : BOOLEAN, name_prefix : {"env", "other"}]

InitList ==
    /\ fleet \in SUBSET {EarlierContainer(n) : n \in EarlierNames}
    /\ host_bound = {}
    /\ now = 1
    /\ Idle
    /\ stopped \in SUBSET (FleetNames(fleet) \cap {<<"env", 2>>})
    /\ servers = {}

ListRun ==
    /\ args = NoArgs
    /\ UNCHANGED ops
    /\ \E a \in NamesRunArgs : RunRequest(a)

ListLaunch == LaunchOne({0})

ListCommand ==
    /\ args.cmd = "run"
    /\ \E a \in ListArgs : ListRequest(a)

NextList ==
    \/ ListRun
    \/ ListLaunch
    \/ BeginReadiness
    \/ WaitCall
    \/ WaitPoll
    \/ WaitReturn
    \/ ListCommand

SpecList == InitList /\ [][NextList]_vars

\* ------------------------------------------------------------------ agents: messages
\* a message of the conversation: its role, the type of its first content part and what
\* it carries
Message(role, type, content) == [role |-> role, type |-> type, content |-> content]

IsImageMessage(m) == m.role = "user" /\ m.type = "image_url"

\* _get_user_message: the tool result, else the user's answer, else the screenshot; the
\* MAI agent encodes the screenshot here, the general agent passes the PIL image on
UserMessage(kind, obs, k) ==
    IF obs = "tool_call" THEN Message("user", "text", <<"tool_call", k>>)
    ELSE IF obs = "ask_user_response" THEN Message("user", "text", <<"ask_user_response", k>>)
    ELSE IF kind = "mai" THEN Message("user", "image_url", <<"data_url", <<"screenshot", k>>>>)
    ELSE Message("user", "image_url", <<"screenshot", k>>)

RECURSIVE HistoryTurns(_, _, _, _)
HistoryTurns(kind, images, responses, i) ==
    IF i > Len(responses) THEN <<>>
    ELSE <<Message("assistant", "text", <<"response", responses[i]>>),
           UserMessage(kind, images[i + 1], i + 1)>>
         \o HistoryTurns(kind, images, responses, i + 1)

\* the messages before _hide_history_images: the system prompt, for the MAI agent the
\* instruction, the first observation, then one assistant and one user message a turn
BuildMessages(kind, images, responses) ==
    <<Message("system", "text", "system_prompt")>>
    \o (IF kind = "mai" THEN <<Message("user", "text", "instruction")>> ELSE <<>>)
    \o <<UserMessage(kind, images[1], 1)>>
    \o HistoryTurns(kind, images, responses, 1)

\* mutant: one image more than history_n_images is shown
ImageShown_OneMore(num_images_used, history_n_images) == num_images_used <= history_n_images

\* if num_images_used < self.history_n_images
ImageShown(num_images_used, history_n_images) == num_images_used < history_n_images

\* GeneralE2EAgentMCP._hide_history_images: from the last message to the first, an image
\* is encoded while fewer than history_n_images were, and replaced by a text after that
RECURSIVE HideGeneralFrom(_, _, _, _)
HideGeneralFrom(messages, reverse_i, num_images_used, history_n_images) ==
    IF reverse_i = 0 THEN messages
    ELSE LET m == messages[reverse_i]
         IN  IF IsImageMessage(m)
             THEN IF ImageShown(num_images_used, history_n_images)
                  THEN HideGeneralFrom(
                           [messages EXCEPT ![reverse_i].content = <<"data_url", m.content>>],
                           reverse_i - 1, num_images_used + 1, history_n_images)
                  ELSE HideGeneralFrom(
                           [messages EXCEPT ![reverse_i] =
                                Message("user", "text", "(Previous turn, screen not shown)")],
                           reverse_i - 1, num_images_used, history_n_images)
             ELSE HideGeneralFrom(messages, reverse_i - 1, num_images_used, history_n_images)

\* image_message_indices: the positions of the image messages, the last one first
RECURSIVE ImageIndicesFrom(_, _)
ImageIndicesFrom(messages, i) ==
    IF i = 0 THEN <<>>
    ELSE (IF IsImageMessage(messages[i]) THEN <<i>> ELSE <<>>)
         \o ImageIndicesFrom(messages, i - 1)

\* image_message_indices[self.history_n:] for a history_n that is not negative
IndicesToRemove(indices, history_n) ==
    {indices[k] : k \in {j \in DOMAIN indices : j > history_n}}

RECURSIVE DeleteAt(_, _, _)
DeleteAt(messages, remove, i) ==
    IF i > Len(messages) THEN <<>>
    ELSE (IF i \in remove THEN <<>> ELSE <<messages[i]>>) \o DeleteAt(messages, remove, i + 1)

\* MAIUINaivigationAgent._hide_history_images
HideMai(messages, history_n) ==
    DeleteAt(messages, IndicesToRemove(ImageIndicesFrom(messages, Len(messages)), history_n), 1)

hide_history_images(kind, messages, n) ==
    IF kind = "mai" THEN HideMai(messages, n)
    ELSE HideGeneralFrom(messages, Len(messages), 0, n)

\* ------------------------------------------------------------------ agents: predict
ObsKinds == {"screenshot", "tool_call", "ask_user_response"}

\* what one openai_chat_completions_create call of predict comes to: no response, a
\* response the parser rejects, a response the parser accepts
LlmOutcomes == {"None", "unparsable", "parsable"}

\* __init__ and reset: both histories empty
NewAgent(kind, history_n) ==
    [pc |-> "ready", kind |-> kind, history_n |-> history_n, history_images |-> <<>>,
     history_responses |-> <<>>, last |-> "none", sent |-> <<>>]

\* GeneralE2EAgentMCP.predict, the loop `while try_times > 0`: the response of the last
\* call made, and whether parse_action accepted it
RECURSIVE TryLoop(_, _, _)
TryLoop(attempts, i, response) ==
    IF i > Len(attempts) THEN [response |-> response, parsed |-> FALSE]
    ELSE IF attempts[i] = "parsable" THEN [response |-> "text", parsed |-> TRUE]
    ELSE TryLoop(attempts, i + 1, IF attempts[i] = "None" THEN "None" ELSE "text")

\* GeneralE2EAgentMCP.predict after the assertion: what the call ends with
GeneralOutcome(attempts, action_ok) ==
    LET r == TryLoop(attempts, 1, "None")
    IN  IF r.response = "None" THEN "ValueError"
        ELSE IF ~r.parsed THEN "unknown"
        ELSE IF ~action_ok THEN "unknown"
        ELSE "action"

\* MAIUINaivigationAgent.predict after the assertion
MaiOutcome(prediction, action_ok) ==
    IF prediction = "None" THEN "ValueError"
    ELSE IF prediction = "unparsable" THEN "unknown"
    ELSE IF ~action_ok THEN "raised after append"
    ELSE "action"

\* the response is appended when predict got as far as history_responses.append
Appends(outcome) == outcome \in {"action", "raised after append"}

\* predict: the observation is appended first, then the assertion, the messages, the
\* model call and the parsing
Predict(obs, outcome) ==
    LET images == Append(agent.history_images, obs)
    IN  IF Len(images) # Len(agent.history_responses) + 1
        THEN agent' = [agent EXCEPT !.history_images = images,
                                    !.last = "AssertionError",
                                    !.sent = <<>>]
        ELSE agent' = [agent EXCEPT
                         !.history_images = images,
                         !.history_responses =
                             IF Appends(outcome) THEN Append(@, Len(images)) ELSE @,
                         !.last = outcome,
                         !.sent = hide_history_images(
                                      agent.kind,
                                      BuildMessages(agent.kind, images, agent.history_responses),
                                      agent.history_n)]

AgentPredict ==
    /\ agent.pc = "ready"
    /\ Len(agent.history_images) < MaxTurns
    /\ \E obs \in ObsKinds : \E action_ok \in BOOLEAN :
         IF agent.kind = "mai"
         THEN \E prediction \in LlmOutcomes : Predict(obs, MaiOutcome(prediction, action_ok))
         ELSE \E attempts \in [1..3 -> LlmOutcomes] :
                  Predict(obs, GeneralOutcome(attempts, action_ok))
    /\ UNCHANGED <<chat, mcp, threads, hide>>
    /\ UNCHANGED cli

\* initialize: initialize_hook calls reset
AgentInitialize ==
    /\ agent.pc = "ready"
    /\ agent.history_images # <<>>
    /\ agent' = NewAgent(agent.kind, agent.history_n)
    /\ UNCHANGED <<chat, mcp, threads, hide>>
    /\ UNCHANGED cli

InitAgent ==
    /\ NoCommand
    /\ agent \in {NewAgent(kind, n) : kind \in {"general", "mai"}, n \in 0..MaxHistoryN}
    /\ chat = Unused
    /\ mcp = Unused
    /\ threads = Unused
    /\ hide = Unused

NextAgent ==
    \/ AgentPredict
    \/ AgentInitialize

SpecAgent == InitAgent /\ [][NextAgent]_vars

\* ------------------------------------------------------------------ agents: hiding alone
\* _hide_history_images on every conversation of up to MaxMessages messages
MessageKinds == {"system", "assistant"} \cup ObsKinds

MessageOfKind(kind, mk, k) ==
    IF mk = "system" THEN Message("system", "text", <<"system_prompt", k>>)
    ELSE IF mk = "assistant" THEN Message("assistant", "text", <<"response", k>>)
    ELSE UserMessage(kind, mk, k)

Conversations(kind) ==
    UNION {{[k \in 1..len |-> MessageOfKind(kind, shape[k], k)] :
               shape \in [1..len -> MessageKinds]} : len \in 0..MaxMessages}

InitHide ==
    /\ NoCommand
    /\ \E kind \in {"general", "mai"} : \E n \in 0..MaxHistoryN :
         \E messages \in Conversations(kind) :
             hide = [pc |-> "built", kind |-> kind, history_n |-> n,
                     messages |-> messages, result |-> <<>>]
    /\ agent = Unused
    /\ chat = Unused
    /\ mcp = Unused
    /\ threads = Unused

HideImages ==
    /\ hide.pc = "built"
    /\ hide' = [hide EXCEPT !.pc = "hidden",
                            !.result = hide_history_images(hide.kind, hide.messages,
                                                           hide.history_n)]
    /\ UNCHANGED <<agent, chat, mcp, threads>>
    /\ UNCHANGED cli

NextHide == HideImages

SpecHide == InitHide /\ [][NextHide]_vars

\* ------------------------------------------------------------------ agents: chat call
\* the keyword arguments that matter to openai_chat_completions_create
TokenKeys == {"max_tokens", "max_completion_tokens"}

\* kwargs["max_completion_tokens"] = kwargs.pop("max_tokens")
RenameMaxTokens(kwargs) == (kwargs \ {"max_tokens"}) \cup {"max_completion_tokens"}

\* the kwargs the API is called with: a claude model gets max_tokens set, a gpt or o1
\* model gets max_tokens renamed
CallKwargs(claude, gpt, kwargs) ==
    LET k1 == IF claude THEN kwargs \cup {"max_tokens"} ELSE kwargs
    IN  IF gpt /\ "max_tokens" \in k1 THEN RenameMaxTokens(k1) ELSE k1

\* what the API call comes to: a response, an error, an error whose message names both
\* max_tokens and max_completion_tokens
ApiOutcomes == {"response", "error", "error naming both"}

\* the call as it starts: retry_times and kwargs as passed
NewChat(claude, gpt, kwargs, retry_times) ==
    [pc |-> "loop", claude |-> claude, gpt |-> gpt, kwargs |-> kwargs,
     retry_times |-> retry_times, passed |-> retry_times, api_calls |-> 0,
     odd_call |-> FALSE, failed |-> 0, result |-> "none"]

Up(n, max) == IF n < max THEN n + 1 ELSE max

\* while retry_times > 0 is false: return None
ChatGiveUp ==
    /\ chat.pc = "loop"
    /\ chat.retry_times <= 0
    /\ chat' = [chat EXCEPT !.pc = "returned", !.result = "None"]
    /\ UNCHANGED <<agent, mcp, threads, hide>>
    /\ UNCHANGED cli

\* one iteration of the loop: the API call and, when it raised, the except clause;
\* time.sleep(1) takes time and changes nothing. odd_call tells one call from the next
\* once api_calls has reached MaxApiCalls
ChatAttempt ==
    /\ chat.pc = "loop"
    /\ chat.retry_times > 0
    /\ \E outcome \in ApiOutcomes :
         LET kw    == CallKwargs(chat.claude, chat.gpt, chat.kwargs)
             made  == Up(chat.api_calls, MaxApiCalls)
         IN  IF outcome = "response"
             THEN chat' = [chat EXCEPT !.kwargs = kw, !.api_calls = made, !.odd_call = ~@,
                                       !.pc = "returned", !.result = "content"]
             ELSE IF outcome = "error naming both" /\ "max_tokens" \in kw
             THEN chat' = [chat EXCEPT !.kwargs = RenameMaxTokens(kw), !.api_calls = made, !.odd_call = ~@]
             ELSE chat' = [chat EXCEPT !.kwargs = kw, !.api_calls = made, !.odd_call = ~@,
                                       !.failed = @ + 1,
                                       !.retry_times = @ - 1]
    /\ UNCHANGED <<agent, mcp, threads, hide>>
    /\ UNCHANGED cli

InitChat ==
    /\ NoCommand
    /\ chat \in {NewChat(claude, gpt, kwargs, retry_times) :
                    claude \in BOOLEAN, gpt \in BOOLEAN, kwargs \in SUBSET TokenKeys,
                    retry_times \in 0..MaxRetryTimes}
    /\ agent = Unused
    /\ mcp = Unused
    /\ threads = Unused
    /\ hide = Unused

NextChat ==
    \/ ChatAttempt
    \/ ChatGiveUp

SpecChat == InitChat /\ [][NextChat]_vars

\* the call keeps running: python goes on to the next statement
SpecChatFair == SpecChat /\ WF_vars(NextChat)

\* ------------------------------------------------------------------ MCP client
\* what one attempt comes to: a result that is not empty, an empty result, an exception
\* or a timeout
McpOutcomes == {"result", "empty", "exception"}

\* what list_tools and call_tool return at the end
McpValue(op, ok) ==
    IF op = "list_tools"
    THEN IF ok THEN <<"tool">> ELSE <<>>
    ELSE IF ok THEN <<"content">> ELSE [result |-> "Failed to call tool"]

\* SyncMCPClient.__init__: self.tools = None
NewMcp(client, max_retries, retry_delay, retry_backoff) ==
    [pc |-> "idle", client |-> client, max_retries |-> max_retries,
     retry_delay |-> retry_delay, retry_backoff |-> retry_backoff, tools |-> "None",
     op |-> "none", attempt |-> 0, delay |-> 0, sleeps |-> <<>>, outcomes |-> <<>>,
     result |-> "none", list_contacts |-> 0, cache_hits |-> 0, done |-> 0]

\* mutant: an empty cached list is fetched again
ToolsCached_NonEmpty(tools) == tools # "None" /\ tools # <<>>

\* if self.tools is not None: return self.tools
ToolsCached(tools) == tools # "None"

\* mutant: the last failed attempt is followed by a sleep as well
SleepBeforeNext_AfterLast(attempt, max_retries) == attempt < max_retries

\* if attempt < self.max_retries - 1: sleep(delay); delay *= self.retry_backoff
SleepBeforeNext(attempt, max_retries) == attempt < max_retries - 1

\* list_tools or call_tool has returned value; list_tools_sync stores it in self.tools
McpReturned(m, value) ==
    [m EXCEPT !.pc = "idle",
              !.result = value,
              !.done = @ + 1,
              !.tools = IF m.op = "list_tools" THEN value ELSE @]

\* list_tools and call_tool up to the first attempt; list_tools returns [] at once
\* without a client, and range(0) makes no attempt
McpStarted(m, op) ==
    LET started == [m EXCEPT !.op = op, !.attempt = 0, !.delay = m.retry_delay,
                             !.sleeps = <<>>, !.outcomes = <<>>, !.result = "none"]
    IN  IF (op = "list_tools" /\ ~m.client) \/ m.max_retries = 0
        THEN McpReturned(started, McpValue(op, FALSE))
        ELSE [started EXCEPT !.pc = "attempt"]

\* list_tools_sync: the cached list when there is one, else list_tools
ListToolsSync ==
    /\ mcp.pc = "idle"
    /\ mcp.done < MaxMcpCalls
    /\ IF ToolsCached(mcp.tools)
       THEN mcp' = [mcp EXCEPT !.op = "cached", !.result = mcp.tools,
                               !.cache_hits = @ + 1, !.done = @ + 1]
       ELSE mcp' = McpStarted(mcp, "list_tools")
    /\ UNCHANGED <<agent, chat, threads, hide>>
    /\ UNCHANGED cli

\* call_tool_sync: call_tool
CallToolSync ==
    /\ mcp.pc = "idle"
    /\ mcp.done < MaxMcpCalls
    /\ mcp' = McpStarted(mcp, "call_tool")
    /\ UNCHANGED <<agent, chat, threads, hide>>
    /\ UNCHANGED cli

\* one iteration of `for attempt in range(self.max_retries)`; without a client call_tool
\* raises in every attempt
McpAttempt ==
    /\ mcp.pc = "attempt"
    /\ \E outcome \in McpOutcomes :
         /\ ~mcp.client => outcome = "exception"
         /\ LET tried == [mcp EXCEPT
                            !.outcomes = Append(@, outcome),
                            !.list_contacts = IF mcp.op = "list_tools" THEN @ + 1 ELSE @]
            IN  IF outcome = "result"
                THEN mcp' = McpReturned(tried, McpValue(mcp.op, TRUE))
                ELSE LET slept == IF SleepBeforeNext(mcp.attempt, mcp.max_retries)
                                  THEN [tried EXCEPT !.sleeps = Append(@, mcp.delay),
                                                     !.delay = @ * mcp.retry_backoff]
                                  ELSE tried
                     IN  IF mcp.attempt + 1 < mcp.max_retries
                         THEN mcp' = [slept EXCEPT !.attempt = @ + 1]
                         ELSE mcp' = McpReturned([slept EXCEPT !.attempt = @ + 1],
                                                 McpValue(mcp.op, FALSE))
    /\ UNCHANGED <<agent, chat, threads, hide>>
    /\ UNCHANGED cli

InitMcp ==
    /\ NoCommand
    /\ mcp \in {NewMcp(client, max_retries, retry_delay, retry_backoff) :
                   client \in BOOLEAN, max_retries \in 0..MaxMcpRetries,
                   retry_delay \in 1..MaxRetryDelay, retry_backoff \in 1..MaxRetryBackoff}
    /\ agent = Unused
    /\ chat = Unused
    /\ threads = Unused
    /\ hide = Unused

NextMcp ==
    \/ ListToolsSync
    \/ CallToolSync
    \/ McpAttempt

SpecMcp == InitMcp /\ [][NextMcp]_vars

\* ------------------------------------------------------------------ MCP client: threads
ThreadIds == 1..MaxThreads

NoThread == 0

\* CLIENT = None; the clients constructed are numbered from 1
NoClient == 0

\* the module as imported: CLIENT = None, client_lock = Lock(), no thread in a call
NewThreads ==
    [pc          |-> [t \in ThreadIds |-> "idle"],
     op          |-> [t \in ThreadIds |-> "none"],
     got         |-> [t \in ThreadIds |-> NoClient],
     calls_left  |-> [t \in ThreadIds |-> MaxThreadCalls],
     client_lock |-> NoThread,
     CLIENT      |-> NoClient,
     constructed |-> 0,
     tools       |-> "None",
     fetches     |-> 0]

\* mutant: the lock is taken whether or not another thread holds it
LockAvailable_Always(client_lock) == TRUE

\* Lock.acquire: the lock is taken only when no thread holds it
LockAvailable(client_lock) == client_lock = NoThread

\* a thread calls init_mcp_clients, or list_tools_sync or call_tool_sync on the client
\* it got from init_mcp_clients
ThreadCall(t) ==
    /\ threads.pc[t] = "idle"
    /\ threads.calls_left[t] > 0
    /\ \E op \in {"init_mcp_clients", "list_tools_sync", "call_tool_sync"} :
         /\ op # "init_mcp_clients" => threads.got[t] # NoClient
         /\ threads' = [threads EXCEPT !.pc[t] = "waiting", !.op[t] = op,
                                       !.calls_left[t] = @ - 1]

\* with client_lock: the thread gets the lock
ThreadAcquire(t) ==
    /\ threads.pc[t] = "waiting"
    /\ LockAvailable(threads.client_lock)
    /\ threads' = [threads EXCEPT !.client_lock = t, !.pc[t] = "entered"]

\* the test the body starts with: `if CLIENT is None`, `if self.tools is not None`
ThreadTest(t) ==
    /\ threads.pc[t] = "entered"
    /\ threads' = [threads EXCEPT !.pc[t] =
           IF threads.op[t] = "init_mcp_clients"
           THEN IF threads.CLIENT = NoClient THEN "constructing" ELSE "returning"
           ELSE IF threads.op[t] = "list_tools_sync"
           THEN IF ToolsCached(threads.tools) THEN "returning" ELSE "running"
           ELSE "running"]

\* the lock as the with statement leaves it: released if this thread holds it
Released(client_lock, t) == IF client_lock = t THEN NoThread ELSE client_lock

\* the rest of the body and the end of the with statement, which releases the lock also
\* when the body raised: SyncMCPClient(config=MCP_CONFIG), _run_async_func, return
ThreadLeave(t) ==
    /\ threads.pc[t] \in {"constructing", "running", "returning"}
    /\ \E ok \in BOOLEAN :
         LET left == [threads EXCEPT !.pc[t] = "idle",
                                     !.client_lock = Released(@, t)]
         IN  IF threads.pc[t] = "constructing"
             THEN IF ok
                  THEN threads' = [left EXCEPT !.constructed = @ + 1,
                                               !.CLIENT = threads.constructed + 1,
                                               !.got[t] = threads.constructed + 1]
                  ELSE threads' = left
             ELSE IF threads.pc[t] = "returning"
             THEN /\ ok
                  /\ threads' = [left EXCEPT !.got[t] =
                         IF threads.op[t] = "init_mcp_clients" THEN threads.CLIENT ELSE @]
             ELSE IF threads.op[t] = "list_tools_sync"
             THEN threads' = [left EXCEPT !.fetches = @ + 1,
                                          !.tools = IF ok THEN <<"tool">> ELSE <<>>]
             ELSE threads' = left

ThreadStep ==
    /\ \E t \in ThreadIds :
         \/ ThreadCall(t)
         \/ ThreadAcquire(t)
         \/ ThreadTest(t)
         \/ ThreadLeave(t)
    /\ UNCHANGED <<agent, chat, mcp, hide>>
    /\ UNCHANGED cli

InitThreads ==
    /\ NoCommand
    /\ threads = NewThreads
    /\ agent = Unused
    /\ chat = Unused
    /\ mcp = Unused
    /\ hide = Unused

NextThreads == ThreadStep

SpecThreads == InitThreads /\ [][NextThreads]_vars

\* ------------------------------------------------------------------ properties
RunFinished == pc = "idle" /\ args.cmd = "run" /\ output.complete

ReadinessPhase == pc \in {"wait_call", "polling", "wait_return"}

\* the position of a launched container's configuration in container_configs
ConfigIndex(name) == CHOOSE p \in DOMAIN container_configs : container_configs[p].name = name

\* C1: in a batch of two or more, a launched instance that turns healthy less than the
\* readiness timeout after its own launch call returned is reported ready
C1_OwnTimeoutBudget ==
    (RunFinished /\ Len(container_configs) >= 2) =>
        \A k \in DOMAIN launched : \A c \in fleet :
            ( /\ c.name = launched[k].name
              /\ c.healthy_at # NeverHealthy
              /\ c.healthy_at < launch_returned[ConfigIndex(c.name)] + LaunchReadyTimeout )
            => launched[k].ready

\* C2: the planned quadruples hold four different ports each, share no port with one
\* another, and hold no port that is bound on the host
C2_PlanDisjoint ==
    args.cmd = "run" =>
        /\ Len(container_configs) = Len(port_sets)
        /\ \A k \in DOMAIN container_configs :
             /\ Cardinality(ConfigPorts(container_configs[k])) = 4
             /\ ConfigPorts(container_configs[k]) \cap BoundPorts(fleet, host_bound) = {}
        /\ \A j, k \in DOMAIN container_configs :
             j # k => ConfigPorts(container_configs[j]) \cap ConfigPorts(container_configs[k]) = {}

\* a plan of two quadruples in which the backend scan went past the viewer start port,
\* on a host with a port bound by another process
C2_Witness ==
    /\ args.cmd = "run"
    /\ Len(container_configs) = 2
    /\ host_bound # {}
    /\ args.bases[1] < args.bases[2]
    /\ container_configs[2].backend_port > args.bases[2]

\* C3: the running containers and the planned configurations have distinct names and
\* disjoint ports; a configuration shares a name or a port with a running container
\* only when that container is its own successful launch
C3_KnownDescriptorsDisjoint ==
    /\ \A c \in fleet : Cardinality(ConfigPorts(c)) = 4
    /\ \A c, d \in fleet :
         c # d => c.name # d.name /\ ConfigPorts(c) \cap ConfigPorts(d) = {}
    /\ \A j, k \in DOMAIN container_configs :
         j # k => /\ container_configs[j].name # container_configs[k].name
                  /\ ConfigPorts(container_configs[j]) \cap
                     ConfigPorts(container_configs[k]) = {}
    /\ \A k \in DOMAIN container_configs : \A c \in fleet :
         ( c.name = container_configs[k].name
           \/ ConfigPorts(c) \cap ConfigPorts(container_configs[k]) # {} )
         => /\ k <= Len(results)
            /\ results[k].success
            /\ c.name = container_configs[k].name
            /\ ConfigPorts(c) = ConfigPorts(container_configs[k])

\* a launched container that holds the name and the ports of a container the preceding
\* rm removed, next to another running container
C3_Witness ==
    /\ RunFinished
    /\ Cardinality(fleet) >= 2
    /\ \E c \in fleet, r \in removed :
         /\ c.name = r.name
         /\ ConfigPorts(c) = ConfigPorts(r)
         /\ \E k \in DOMAIN launched : launched[k].name = c.name

\* C4: every configuration of the batch gets its launch call whatever the results of
\* the others; a success is in launched, a failure has an error message and a panel
C4_LaunchFailureIsolated ==
    args.cmd = "run" =>
        /\ Len(results) <= Len(container_configs)
        /\ \A k \in DOMAIN results :
             /\ results[k].name = container_configs[k].name
             /\ results[k].success =>
                  /\ results[k].error_message = "none"
                  /\ results[k].name \in FleetNames(fleet)
                  /\ \E j \in DOMAIN launched : launched[j].name = results[k].name
             /\ ~results[k].success =>
                  /\ results[k].error_message # "none"
                  /\ results[k].name \in output.launch_failed
                  /\ \A j \in DOMAIN launched : launched[j].name # results[k].name
        /\ (ReadinessPhase \/ pc = "readiness" \/ RunFinished)
             => Len(results) = Len(container_configs)

\* a finished batch whose first launch failed and whose second launch succeeded
C4_Witness ==
    /\ RunFinished
    /\ Len(results) = 2
    /\ ~results[1].success
    /\ results[2].success

\* C5: a dev-mode run request with count > 1 exits with an error having issued no
\* runtime call, planned nothing and launched nothing
C5_DevCountRejected ==
    (args.cmd = "run" /\ args.dev /\ args.count > 1) =>
        /\ pc = "idle"
        /\ exit_code = 1
        /\ output.error = "dev_count"
        /\ calls = {}
        /\ port_sets = <<>>
        /\ container_configs = <<>>
        /\ results = <<>>
        /\ launched = <<>>

C5_Witness == args.cmd = "run" /\ args.dev /\ args.count = 2 /\ exit_code = 1

\* C6 as stated: a plan with fewer port sets than requested is non-empty, has one
\* configuration per port set found, and comes with the port warning
C6_ShortfallNonEmpty ==
    (args.cmd = "run" /\ ~DevModeRejected(args) /\ Len(port_sets) < args.count) =>
        /\ Len(container_configs) > 0
        /\ Len(container_configs) = Len(port_sets)
        /\ output.port_warning

\* C6 amended: the plan has one configuration per port set found, at most count of them
\* and possibly none, and the port warning is printed exactly when they are fewer than
\* count
C6_ShortfallSignalled ==
    (args.cmd = "run" /\ ~DevModeRejected(args)) =>
        /\ Len(container_configs) = Len(port_sets)
        /\ Len(container_configs) <= args.count
        /\ output.port_warning <=> (Len(container_configs) < args.count)

C6_Witness ==
    /\ args.cmd = "run"
    /\ args.count = 2
    /\ Len(container_configs) = 1
    /\ output.port_warning

\* C7: the batch starts the readiness waits only after the launch call of the last
\* configuration returned, waits for the backend ports of the successful launches and
\* of no other, and by the end has probed the health of every one of them
C7_ReadinessAfterLaunches ==
    args.cmd = "run" =>
        /\ (ReadinessPhase \/ waited # <<>> \/ probed # {})
             => Len(results) = Len(container_configs)
        /\ probed \subseteq Range(waited)
        /\ \A k \in DOMAIN waited :
             \E j \in DOMAIN results :
                 results[j].success /\ results[j].backend_port = waited[k]
        /\ \A j \in DOMAIN results :
             ~results[j].success => results[j].backend_port \notin Range(waited)
        /\ RunFinished =>
             /\ waited = [k \in DOMAIN launched |-> launched[k].backend_port]
             /\ {launched[k].name : k \in DOMAIN launched}
                  = {results[j].name : j \in {i \in DOMAIN results : results[i].success}}
             /\ \A k \in DOMAIN launched : launched[k].backend_port \in probed

C8_WitnessTimeout ==
    /\ args.cmd = "wait"
    /\ wait_result = "timeout"
    /\ \E c \in fleet : c.backend_port = wait_port /\ c.healthy_at >= now

\* C9: no step of the readiness phase changes the fleet, and the batch records a wait
\* that timed out as ready = False with the container still running
C9_TimeoutLeavesRunning ==
    [][ /\ (ReadinessPhase \/ pc = "readiness") => fleet' = fleet
        /\ (pc = "wait_return" /\ args.cmd = "run" /\ wait_result = "timeout") =>
             /\ ~launched'[widx].ready
             /\ launched[widx].name \in FleetNames(fleet')
             /\ launched[widx].name \in output'.not_ready
             /\ "remove" \notin calls' ]_vars

\* a finished batch with a container that is not ready and still running
C9_Witness ==
    /\ RunFinished
    /\ \E k \in DOMAIN launched :
         /\ ~launched[k].ready
         /\ launched[k].name \in FleetNames(fleet)
         /\ launched[k].name \in output.not_ready

\* C10: rm of names none of which is in the fleet returns empty destroyed and failed
\* lists without an error and leaves the fleet as it was
C10_DestroyAbsent ==
    [][ ( /\ pc = "idle"
          /\ args'.cmd = "rm"
          /\ ~args'.all
          /\ args'.container_names # <<>>
          /\ Range(args'.container_names) \cap FleetNames(fleet) = {} )
        => /\ fleet' = fleet
           /\ rm_destroyed' = <<>>
           /\ rm_failed' = <<>>
           /\ exit_code' = 0
           /\ output'.nothing_to_destroy ]_vars

\* an rm of names that are not in the fleet while other containers are running:
\* nothing is reported destroyed or failed
C10_Witness ==
    /\ args.cmd = "rm"
    /\ ~args.all
    /\ args.container_names # <<>>
    /\ rm_destroyed = <<>>
    /\ rm_failed = <<>>
    /\ fleet # {}
    /\ removed = {}
    /\ output.nothing_to_destroy

\* the existing containers an rm command is about: the named ones, or with no name (or
\* with --all) every container of the prefix
TargetedNames(a, f) ==
    IF ~a.all /\ a.container_names # <<>>
    THEN Range(a.container_names) \cap FleetNames(f)
    ELSE {n \in FleetNames(f) : n[1] = a.name_prefix}

\* C11: an rm command returns every targeted existing container in exactly one of
\* destroyed and failed; the destroyed ones are gone, the failed ones are still there,
\* and every container that was not targeted is as it was
C11_DestroyPartition ==
    [][ (pc = "idle" /\ args'.cmd = "rm") =>
          LET T == TargetedNames(args', fleet)
              D == Range(rm_destroyed')
              F == Range(rm_failed')
          IN  /\ D \cup F = T
              /\ D \cap F = {}
              /\ D \cap FleetNames(fleet') = {}
              /\ F \subseteq FleetNames(fleet')
              /\ fleet' \subseteq fleet
              /\ \A c \in fleet : c.name \notin T => c \in fleet' ]_vars

\* an rm --all that destroyed one container and failed on another
C11_Witness ==
    /\ args.cmd = "rm"
    /\ args.all
    /\ rm_destroyed # <<>>
    /\ rm_failed # <<>>

\* an rm by name that left a container that was not named
C11_WitnessUntargeted ==
    /\ args.cmd = "rm"
    /\ ~args.all
    /\ rm_destroyed # <<>>
    /\ fleet # {}
    /\ rm_failed = <<>>

RestartFinished == pc = "idle" /\ args.cmd = "restart" /\ exit_code = 0

\* the names a restart command made the given call on with the given result
RestartCalls(op, ok) ==
    {rs.calls[k].name : k \in {j \in DOMAIN rs.calls : rs.calls[j].op = op /\ rs.calls[j].ok = ok}}

\* C12: a restart without a name kills the server of every running container of the
\* prefix exactly once and of no other container, goes on after a failure, and counts
\* exactly the containers whose server was started again
C12_RestartAll ==
    (RestartFinished /\ args.container_name = NoName) =>
        LET running == {c.name : c \in {d \in fleet : d.name[1] = args.name_prefix
                                                       /\ d.name \notin stopped}}
            kills   == {k \in DOMAIN rs.calls : rs.calls[k].op = "kill"}
        IN  /\ {rs.calls[k].name : k \in kills} = running
            /\ Cardinality(kills) = Cardinality(running)
            /\ \A k \in DOMAIN rs.calls : rs.calls[k].name \in running
            /\ rs.queue = <<>>
            /\ rs.total = Cardinality(running)
            /\ rs.success_count = Cardinality(RestartCalls("start", TRUE))
            /\ RestartCalls("start", TRUE) \subseteq servers

\* a restart of all with a stopped container, a failure on the first running container
\* and a success on a later one
C12_Witness ==
    /\ RestartFinished
    /\ args.container_name = NoName
    /\ stopped \cap {c.name : c \in {d \in fleet : d.name[1] = args.name_prefix}} # {}
    /\ rs.total = 2
    /\ rs.success_count = 1
    /\ ~rs.calls[1].ok

\* C13: no step of a restart command, successful or not, creates, removes, renames or
\* stops a container or changes a port
C13_RestartKeepsFleet ==
    [][ args'.cmd = "restart" => (fleet' = fleet /\ stopped' = stopped) ]_vars

\* a restart by name that failed after the server was killed: the container is there
C13_Witness ==
    /\ pc = "idle"
    /\ args.cmd = "restart"
    /\ args.container_name # NoName
    /\ exit_code = 1
    /\ Len(rs.calls) = 2
    /\ rs.calls[1].name \in FleetNames(fleet)
    /\ rs.calls[1].name \notin servers

\* the indices in use among the containers of a prefix and a mode
IndicesInUse(f, prefix, dev) ==
    {c.name[2] : c \in {d \in f : d.name[1] = prefix /\ (Len(d.name) = 3) = dev}}

\* C14: the names planned by a run request are prefix_k .. prefix_(k+N-1), with the dev
\* suffix exactly in dev mode, k being 0 when no container of the prefix and mode
\* exists and else one more than the highest index in use among them; no planned name
\* is the name of an existing container
C14_PlannedNames ==
    [][ (pc = "idle" /\ args'.cmd = "run") =>
          LET used == IndicesInUse(fleet, args'.name_prefix, args'.dev)
          IN  \A i \in DOMAIN container_configs' :
                LET name == container_configs'[i].name
                IN  /\ name[1] = args'.name_prefix
                    /\ Len(name) = IF args'.dev THEN 3 ELSE 2
                    /\ args'.dev => name[3] = "dev"
                    /\ used = {} => name[2] = i - 1
                    /\ used # {} => /\ name[2] - i \in used
                                    /\ \A u \in used : u <= name[2] - i
                    /\ name \notin FleetNames(fleet) ]_vars

\* a plan of two numbered names above a gap in the indices, next to a dev container
C14_Witness ==
    /\ args.cmd = "run"
    /\ ~args.dev
    /\ args.dry_run
    /\ Len(container_configs) = 2
    /\ container_configs[1].name = <<"env", 3>>
    /\ container_configs[2].name = <<"env", 4>>
    /\ <<"env", 0>> \in FleetNames(fleet)
    /\ <<"env", 1, "dev">> \in FleetNames(fleet)

\* the dev containers of a prefix
DevInstances(f, prefix) == {c \in f : c.name[1] = prefix /\ Len(c.name) = 3}

\* C15: a dev-mode run request made while a dev container of the prefix exists is
\* answered with an error and plans nothing, the first dev request is named prefix_0_dev,
\* and no step takes the fleet from at most one dev container of the prefix to more
C15_DevAlreadyRunning ==
    [][ /\ (pc = "idle" /\ args'.cmd = "run" /\ args'.dev /\ args'.count = 1) =>
             IF DevInstances(fleet, args'.name_prefix) # {}
             THEN /\ output'.error # "none"
                  /\ exit_code' = 1
                  /\ container_configs' = <<>>
             ELSE \A i \in DOMAIN container_configs' :
                      container_configs'[i].name = <<args'.name_prefix, 0, "dev">>
        /\ Cardinality(DevInstances(fleet, "env")) <= 1
             => Cardinality(DevInstances(fleet', "env")) <= 1 ]_vars

\* the configurations of one operator that another operator's successful launch took
\* the name or a port of
TakenBy(cfg, theirs) ==
    \E j \in DOMAIN theirs :
        /\ theirs[j].success
        /\ \/ theirs[j].name = cfg.name
           \/ ConfigPorts(theirs[j]) \cap ConfigPorts(cfg) # {}

\* C16: with two operators launching at once no two containers share a name or a port;
\* a configuration whose name or port the other operator's launch took first is
\* reported as a launch failure, and each operator still issues the launch call of
\* every one of its configurations
C16_RaceArbitrated ==
    /\ \A c, d \in fleet :
         c # d => c.name # d.name /\ ConfigPorts(c) \cap ConfigPorts(d) = {}
    /\ \A k \in DOMAIN results :
         /\ (TakenBy(container_configs[k], other.results) /\ ~results[k].success)
              => /\ results[k].name \in output.launch_failed
                 /\ \A j \in DOMAIN launched : launched[j].name # results[k].name
         /\ results[k].success => ~TakenBy(container_configs[k], other.results)
    /\ \A j \in DOMAIN other.results :
         other.results[j].success => ~TakenBy(other.configs[j], results)
    /\ RunFinished => Len(results) = Len(container_configs)
    /\ other.pc = "done" => Len(other.results) = Len(other.configs)

\* both operators planned the same two configurations; the first operator lost the
\* first to the second operator and launched the second itself
C16_Witness ==
    /\ RunFinished
    /\ other.pc = "done"
    /\ Len(container_configs) = 2
    /\ other.configs = container_configs
    /\ ~results[1].success
    /\ other.results[1].success
    /\ results[2].success
    /\ ~other.results[2].success

\* C17: the launch calls of a batch go through the configurations in order, one call
\* each; successive calls are launch_interval apart, whatever the result of the earlier
\* one, and nothing is slept after the last call or when the interval is 0
C17_SequentialStagger ==
    args.cmd = "run" =>
        /\ Len(results) <= Len(container_configs)
        /\ Len(launch_returned) = Len(results)
        /\ \A k \in DOMAIN results : results[k].name = container_configs[k].name
        /\ \A k \in DOMAIN launch_returned :
             k > 1 => launch_returned[k] - launch_returned[k - 1] = args.launch_interval
        /\ pc = "launch" => idx = Len(results) + 1
        /\ pc = "sleep" => /\ args.launch_interval > 0
                           /\ Len(results) < Len(container_configs)
                           /\ sleep_left \in 1..args.launch_interval
                           /\ now = launch_returned[Len(results)]
                                      + (args.launch_interval - sleep_left)
        /\ (pc = "readiness" /\ results # <<>>) => now = launch_returned[Len(results)]

\* a batch of two with an interval of two seconds whose first launch failed: the second
\* launch came two seconds later and the readiness phase began at once
C17_Witness ==
    /\ args.cmd = "run"
    /\ args.launch_interval = 2
    /\ pc = "readiness"
    /\ Len(results) = 2
    /\ ~results[1].success
    /\ results[2].success
    /\ launch_returned[2] = launch_returned[1] + 2
    /\ now = launch_returned[2]

\* C18: once an interrupt has reached a batch launch, no further launch call and no
\* further health probe is made, and no container is removed by it or after it
C18_CancelStops ==
    [][ /\ cancel_signal # "none" =>
             /\ results' = results
             /\ probed' = probed
             /\ ~(pc = "polling" /\ (now' # now \/ wait_result' = "ready"))
        /\ cancel_signal' # "none" => fleet \subseteq fleet' ]_vars

\* C19: a run request without a usable .env file ends with a configuration error
\* having made no runtime call (no port probe, no inventory query, no launch) and
\* having planned and launched nothing
C19_NoEnvFileFailsFast ==
    ( /\ args.cmd = "run"
      /\ ~(args.dev /\ args.count > 1)
      /\ args.env \in {"given_missing", "given_dir", "none"} ) =>
        /\ pc = "idle"
        /\ exit_code = 1
        /\ output.error \in {"env_not_found", "env_not_a_file", "env_none"}
        /\ container_configs = <<>>
        /\ results = <<>>
        /\ launched = <<>>
        /\ calls = {}

\* a batch launch that got past its checks and has returned
BatchReturned ==
    pc = "idle" /\ args.cmd = "run" /\ ~args.dry_run /\ output.error = "none"

\* C20: a batch launch that has returned is reported as completed exactly when at least
\* one launch succeeded, its failed launches being reported next to the successes; with
\* no success it is reported as failed
C20_FailsIffNoSuccess ==
    BatchReturned =>
        /\ \A k \in DOMAIN results :
             ~results[k].success => results[k].name \in output.launch_failed
        /\ launched # <<>> => (output.complete /\ exit_code = 0)
        /\ launched = <<>> => (~output.complete /\ exit_code # 0)

\* the ports allocated in this call before component j of quadruple k
AllocatedBefore(sets, k, j) ==
    UNION {{sets[i][1], sets[i][2], sets[i][3], sets[i][4]} : i \in 1..(k - 1)}
        \cup {sets[k][m] : m \in 1..(j - 1)}

\* the ports of one family that component j of quadruple k can take
FreeFrom(base, bound, allocated) ==
    {p \in base..MaxPort : p \notin bound /\ p \notin allocated}

\* C21: every port of the plan is the lowest port at or above its family's start port
\* that is unbound on the host and not allocated earlier in the call, the plan is cut
\* short only where a family has no such port left, and so the port sets are fixed by
\* the start ports, the count and the host's port table
C21_LowestFirst ==
    (args.cmd = "run" /\ ~DevModeRejected(args)) =>
        LET bound == BoundPorts(fleet, host_bound)
            n == Len(port_sets)
        IN  /\ n <= args.count
            /\ \A k \in 1..n : \A j \in 1..4 :
                 LET free == FreeFrom(args.bases[j], bound, AllocatedBefore(port_sets, k, j))
                 IN  /\ port_sets[k][j] \in free
                     /\ \A p \in free : port_sets[k][j] <= p
            /\ n < args.count =>
                 LET before == AllocatedBefore(port_sets, n + 1, 1)
                 IN  \E j \in 1..4 : \E q \in [1..(j - 1) -> Ports] :
                         /\ \A m \in 1..(j - 1) :
                              LET free == FreeFrom(args.bases[m], bound,
                                                   before \cup {q[i] : i \in 1..(m - 1)})
                              IN  q[m] \in free /\ \A p \in free : q[m] <= p
                         /\ FreeFrom(args.bases[j], bound,
                                     before \cup {q[i] : i \in 1..(j - 1)}) = {}

\* two port sets on a host with bound ports, where the scan of a family stepped over a
\* bound port and over a port taken by another family earlier in the call
C21_Witness ==
    /\ args.cmd = "run"
    /\ Len(port_sets) = 2
    /\ \E j \in 1..4 :
         /\ args.bases[j] \in host_bound
         /\ port_sets[1][j] > args.bases[j] + 1
         /\ \E m \in 1..4 : m # j /\ port_sets[1][m] = args.bases[j] + 1

\* the port a row of the listing reports for a family, None when it reports none
ListedPort(row, format, family) ==
    IF format = "json"
    THEN LET key == CASE family = "backend" -> "backend_port"
                      [] family = "viewer"  -> "viewer_port"
                      [] family = "vnc"     -> "vnc_port"
                      [] family = "adb"     -> "adb_port"
         IN  IF key \in DOMAIN row THEN row[key] ELSE None
    ELSE LET cell == CASE family = "backend" -> row.Backend
                       [] family = "viewer"  -> row.Viewer
                       [] family = "vnc"     -> row.VNC
                       [] family = "adb"     -> row.ADB
         IN  IF cell = "N/A" THEN None ELSE cell[2]

ListedName(row, format) == IF format = "json" THEN row.name ELSE row.Name

\* C22: a listing of the batch's prefix, taken after the batch, reports every container
\* the batch launched under its planned name with its four planned ports, and reports
\* only containers of the prefix that the batch launched or that were there before
C22_RoundTrip ==
    (args.cmd = "list" /\ args.name_prefix = "env") =>
        LET l == output.listing
        IN  /\ \A k \in DOMAIN launched :
                 \E row \in l.rows :
                     /\ ListedName(row, l.format) = launched[k].name
                     /\ ListedPort(row, l.format, "backend") = launched[k].backend_port
                     /\ ListedPort(row, l.format, "viewer") = launched[k].viewer_port
                     /\ ListedPort(row, l.format, "vnc") = launched[k].vnc_port
                     /\ ListedPort(row, l.format, "adb") = launched[k].adb_port
            /\ \A row \in l.rows :
                 /\ ListedName(row, l.format)[1] = "env"
                 /\ ListedName(row, l.format) \in FleetNames(fleet)

\* C23: a dry run returns after printing its plan, having issued no launch call and no
\* readiness probe and having left the fleet as it was; the real run of the same
\* arguments that follows it plans the same names and ports
C23_DryRunPlansOnly ==
    [][ /\ (args'.cmd = "run" /\ args'.dry_run) =>
              /\ pc' = "idle"
              /\ fleet' = fleet
              /\ results' = <<>>
              /\ launched' = <<>>
              /\ probed' = {}
              /\ calls' \subseteq {"ports", "inventory"}
              /\ exit_code' = 0 => output'.dry_run
        /\ ( /\ args.cmd = "run"
             /\ args.dry_run
             /\ args'.cmd = "run"
             /\ ~args'.dry_run
             /\ args = [args' EXCEPT !.dry_run = TRUE] ) =>
              /\ port_sets' = port_sets
              /\ container_configs' = container_configs ]_vars

\* a dry run on a fleet that already has a container: the plan is one container, named
\* after the one that runs, on ports above the ones in use
C23_Witness ==
    /\ args.cmd = "run"
    /\ args.dry_run
    /\ output.dry_run
    /\ pc = "idle"
    /\ fleet # {}
    /\ Len(container_configs) = 1
    /\ container_configs[1].name[2] > 0
    /\ container_configs[1].backend_port > args.bases[1]
    /\ calls = {"ports", "inventory"}

\* C24: every start command of a restart comes right after a kill of the same container
\* that was reported successful; a failed kill is followed by no command for that
\* container, and a single-name restart whose kill failed has ended with exit status 1
C24_KillThenStart ==
    args.cmd = "restart" =>
        /\ \A i \in DOMAIN rs.calls :
             /\ rs.calls[i].op \in {"start", "exec"} =>
                  /\ i > 1
                  /\ rs.calls[i - 1].op = "kill"
                  /\ rs.calls[i - 1].name = rs.calls[i].name
                  /\ rs.calls[i - 1].ok
             /\ (rs.calls[i].op = "kill" /\ ~rs.calls[i].ok) =>
                  \A j \in DOMAIN rs.calls : j > i => rs.calls[j].name # rs.calls[i].name
             /\ (rs.calls[i].op = "kill" /\ rs.calls[i].ok /\ i = Len(rs.calls)) =>
                  pc = "rs_start"
        /\ ( /\ args.container_name # NoName
             /\ rs.calls # <<>>
             /\ ~rs.calls[1].ok ) =>
                /\ Len(rs.calls) = 1
                /\ pc = "idle"
                /\ exit_code = 1
                /\ rs.success_count = 0

\* a single-name restart of a container that does not exist: one kill, reported failed
C24_Witness ==
    /\ args.cmd = "restart"
    /\ args.container_name # NoName
    /\ resolve_container_name(args.container_name, args.name_prefix) \notin FleetNames(fleet)
    /\ Len(rs.calls) = 1
    /\ rs.calls[1].op = "kill"
    /\ ~rs.calls[1].ok
    /\ exit_code = 1

\* a restart that killed and then started the server of a running container
C24_WitnessStarted ==
    /\ args.cmd = "restart"
    /\ Len(rs.calls) = 2
    /\ rs.calls[1].op = "kill" /\ rs.calls[1].ok
    /\ rs.calls[2].op = "start" /\ rs.calls[2].ok

\* C25: no predict call of an initialized agent fails its assertion on the lengths of
\* the two histories, whatever the earlier predict calls ended with
C25_HistoriesInStep ==
    agent.pc = "ready" => agent.last # "AssertionError"

\* C26: every call of openai_chat_completions_create returns, with the content of the
\* first response, or with None after retry_times failed attempts
C26_ChatTerminates ==
    <>( /\ chat.pc = "returned"
        /\ \/ chat.result = "content"
           \/ chat.result = "None" /\ chat.failed = chat.passed )

RECURSIVE Power(_, _)
Power(b, e) == IF e = 0 THEN 1 ELSE b * Power(b, e - 1)

\* C27: list_tools and call_tool make at most max_retries attempts, none after a result
\* that is not empty; the k-th sleep lasts retry_delay * retry_backoff^(k-1), there is
\* one sleep after each failed attempt but the last; they return the result of the
\* first attempt that gave one, and their error value after max_retries failures
C27_RetryWithBackoff ==
    mcp.op \in {"list_tools", "call_tool"} =>
        LET n      == Len(mcp.outcomes)
            failed == Cardinality({k \in 1..n : mcp.outcomes[k] # "result"})
        IN  /\ n <= mcp.max_retries
            /\ \A k \in 1..n : mcp.outcomes[k] = "result" => k = n
            /\ \A k \in DOMAIN mcp.sleeps :
                 mcp.sleeps[k] = mcp.retry_delay * Power(mcp.retry_backoff, k - 1)
            /\ Len(mcp.sleeps) = IF failed = mcp.max_retries /\ failed > 0
                                 THEN failed - 1 ELSE failed
            /\ mcp.pc = "attempt" => failed = n /\ n < mcp.max_retries
            /\ mcp.pc = "idle" =>
                 \/ n > 0 /\ mcp.outcomes[n] = "result"
                          /\ mcp.result = McpValue(mcp.op, TRUE)
                 \/ failed = n /\ mcp.result = McpValue(mcp.op, FALSE)
                    /\ (n = mcp.max_retries \/ (mcp.op = "list_tools" /\ ~mcp.client))

\* a call_tool that failed max_retries = 3 times, with backoff, and returned the error
C27_Witness ==
    /\ mcp.op = "call_tool"
    /\ mcp.pc = "idle"
    /\ mcp.max_retries = 3
    /\ mcp.retry_backoff = 2
    /\ Len(mcp.outcomes) = 3
    /\ mcp.sleeps = <<mcp.retry_delay, 2 * mcp.retry_delay>>
    /\ mcp.result = McpValue("call_tool", FALSE)

\* a list_tools that returned its tools at the second attempt
C27_WitnessSecond ==
    /\ mcp.op = "list_tools"
    /\ mcp.pc = "idle"
    /\ mcp.outcomes = <<"empty", "result">>
    /\ mcp.result = <<"tool">>

\* C29: once list_tools_sync has stored a list, empty or not, the stored list stays, the
\* server is not asked for the tools again, and every later list_tools_sync returns
\* the stored list
C29_ToolsFetchedOnce ==
    [][ mcp.tools # "None" =>
            /\ mcp'.tools = mcp.tools
            /\ mcp'.list_contacts = mcp.list_contacts
            /\ (mcp.pc = "idle" /\ mcp'.pc = "attempt") => mcp'.op # "list_tools"
            /\ (mcp'.op = "cached" /\ mcp'.done # mcp.done) => mcp'.result = mcp.tools ]_vars

\* the first fetch failed on all of its attempts and stored the empty list, and a later
\* list_tools_sync returned it
C29_Witness ==
    /\ mcp.client
    /\ mcp.max_retries >= 2
    /\ mcp.list_contacts = mcp.max_retries
    /\ mcp.tools = <<>>
    /\ mcp.op = "cached"
    /\ mcp.result = <<>>
    /\ mcp.cache_hits >= 1

\* the threads inside a with client_lock block
InBody(th) == {t \in ThreadIds : th.pc[t] \in {"entered", "constructing", "running", "returning"}}

\* C28: SyncMCPClient is constructed at most once, every thread that got a client got the
\* same one, at most one thread is inside a body guarded by client_lock, and a thread
\* waits for the lock only while a thread that will release it holds it
C28_OneClientOneBody ==
    threads # Unused =>
        /\ threads.constructed <= 1
        /\ \A t, u \in ThreadIds :
             (threads.got[t] # NoClient /\ threads.got[u] # NoClient) =>
                 threads.got[t] = threads.got[u]
        /\ Cardinality(InBody(threads)) <= 1
        /\ InBody(threads) = {} <=> threads.client_lock = NoThread
        /\ \A t \in InBody(threads) : threads.client_lock = t
        /\ threads.fetches <= 1

\* two threads have the client the third constructed, one of them is in call_tool_sync
\* and another waits for the lock
C28_Witness ==
    /\ threads # Unused
    /\ threads.constructed = 1
    /\ \A t \in ThreadIds : threads.got[t] = 1
    /\ \E t, u \in ThreadIds :
         /\ threads.pc[t] = "running" /\ threads.op[t] = "call_tool_sync"
         /\ threads.pc[u] = "waiting"

\* the positions of the image messages of a conversation
ImagePositions(messages) == {i \in DOMAIN messages : IsImageMessage(messages[i])}

\* the positions of its n most recent image messages
RecentImages(messages, n) ==
    {i \in ImagePositions(messages) :
        Cardinality({j \in ImagePositions(messages) : j >= i}) <= n}

\* C30: of the messages _hide_history_images returns at most history_n carry an image,
\* they are the most recent image messages passed in, each older image message is
\* replaced by the placeholder text (general agent) or removed (MAI agent), and every
\* other message is returned as it was, in the same order
C30_RecentImagesOnly ==
    hide.pc = "hidden" =>
        LET in     == hide.messages
            out    == hide.result
            recent == RecentImages(in, hide.history_n)
            old    == ImagePositions(in) \ recent
            kept   == DOMAIN in \ old
        IN  /\ Cardinality(ImagePositions(out)) <= hide.history_n
            /\ IF hide.kind = "general"
               THEN /\ Len(out) = Len(in)
                    /\ \A i \in DOMAIN in :
                         out[i] = IF i \in recent
                                  THEN Message("user", "image_url",
                                               <<"data_url", in[i].content>>)
                                  ELSE IF i \in old
                                  THEN Message("user", "text",
                                               "(Previous turn, screen not shown)")
                                  ELSE in[i]
               ELSE /\ Len(out) = Cardinality(kept)
                    /\ \A i \in kept : out[Cardinality({j \in kept : j <= i})] = in[i]

\* the general agent was given three screenshots with a text message among them and
\* shows the last two
C30_Witness ==
    /\ hide.pc = "hidden"
    /\ hide.kind = "general"
    /\ hide.history_n = 2
    /\ Cardinality(ImagePositions(hide.messages)) = 3
    /\ Cardinality(ImagePositions(hide.result)) = 2
    /\ Len(hide.result) = 4

\* the MAI agent was given three screenshots and removed the oldest
C30_WitnessMai ==
    /\ hide.pc = "hidden"
    /\ hide.kind = "mai"
    /\ hide.history_n = 2
    /\ Cardinality(ImagePositions(hide.messages)) = 3
    /\ Len(hide.result) = 3

====
